---- MODULE Spec2Model ----
(***************************************************************************)
(* Session broker of the collaboration package: room manager, message      *)
(* relay and peers over channels.                                          *)
(*                                                                         *)
(* Peers are connection slots 1..MaxPeers; a slot's number is the peer id  *)
(* (nanoid(24), unique per connection).  Room ids are 1..MaxRooms (one     *)
(* secureId() per prepareRoom).  RoomImpl objects live in the arena        *)
(* roomObjs; rooms and peers hold arena indices (object references), 0 is  *)
(* "undefined".  outbox[p] holds the envelopes the last step handed to     *)
(* p.channel.sendMessage, in order; its first delivered[p] entries were    *)
(* handed over while the channel was open and reached the client.          *)
(***************************************************************************)
EXTENDS Integers, Sequences, FiniteSets, TLC

\* ---------------------------------------------------------------- bounds
MaxPeers == 3
MaxRooms == 2
MaxOps == 2
TickMs == 150000

\* ------------------------------------------------------ program constants
VERSION == "0.1.0"
RelayTimeoutMs == 300000

PeerIds == 1..MaxPeers
RoomIds == 1..MaxRooms
\* every relayed request takes one of the MaxOps inputs
KeyIds == 1..MaxOps

Users == { [id |-> "u1", name |-> "Alice", email |-> "a@x.org"],
           [id |-> "u2", name |-> "Bob", email |-> ""] }
NoUser == [id |-> "", name |-> "", email |-> ""]
\* the logged-in users that call the HTTP endpoints
Callers == {u \in Users : u.id = "u1"}

\* JS values a response can carry (the booleans true and false)
Values == {"true", "false"}
Truthy(v) == v = "true"
ErrorTexts == {"denied"}
ClientIds == {1}

\* ------------------------------------------------------------- envelopes
\* Correlation ids: client-chosen ids and relay keys (nanoid strings) are
\* kept apart by a tag; NoId stands for an absent id field.
NoId == <<"none", 0>>
CId(i) == <<"cid", i>>
Key(k) == <<"key", k>>

\* params payloads: a public peer projection or the user handed to peer/join
NoParams == [peer |-> 0, uid |-> "", name |-> "", email |-> ""]

Envelope(kind, id, method, clientId, params, response, message, version) ==
    [version |-> version, kind |-> kind, id |-> id, method |-> method,
     clientId |-> clientId, params |-> params, response |-> response,
     message |-> message]

RequestMessageCreate(method, id, params) ==
    Envelope("request", id, method, 0, params, "", "", VERSION)

NotificationMessageCreate(method, params) ==
    Envelope("notification", NoId, method, 0, params, "", "", VERSION)

BroadcastMessageCreate(method, clientId, params) ==
    Envelope("broadcast", NoId, method, clientId, params, "", "", VERSION)

ResponseErrorMessageCreate(id, message) ==
    Envelope("response-error", id, "", 0, NoParams, "", message, VERSION)

ErrorMessageCreate(message) ==
    Envelope("error", NoId, "", 0, NoParams, "", message, VERSION)

\* ----------------------------------------------------------------- state
VARIABLES
    chan,         \* channel of each connection: "none", "open", "closed"
    user,         \* peerInfo.user of each peer
    onClose,      \* onClose subscription made in join: [kind, room]
    roomObjs,     \* arena of RoomImpl objects [id, host, guests]
    rooms,        \* RoomManager.rooms: room id -> arena index
    peers,        \* RoomManager.peers: peer id -> arena index
    outbox,       \* per peer: envelopes the last step handed to sendMessage
    delivered,    \* per peer: how many of them were sent while open
    requestMap,   \* MessageRelay.requestMap: key -> RelayedRequest
    deferreds,    \* the Deferred of every request sent so far
    awaiting,     \* the continuation awaiting each request's promise
    timers,       \* armed timeouts: key -> ticks of TickMs since armed
    nextKey,      \* number of nanoid keys drawn so far + 1
    claims,       \* RoomClaims signed so far (tokens in circulation)
    nextRoom,     \* number of room ids drawn so far + 1
    joinResults,  \* outcome of each requestJoin call, by key
    ops,          \* inputs taken so far: client envelopes and HTTP calls
    auth,         \* CredentialsManager: deferredAuths, the confirmAuth and
                  \* confirmUser calls, and the user registry
    jwt,          \* a token round trip: the inputs and what verifyJwt returned
    recording,    \* whether wire is being kept
    wire,         \* history: per peer, what its client received, in order,
                  \* each envelope with the number of the input that caused it
    joinedRoom,   \* history: arena index of the room each peer was accepted into
    conn,         \* a client Connection: its requestMap, the Deferreds and
                  \* timers of its requests, its handlers, what it last wrote
    dispatch      \* how the channel treats a throwing onClose callback:
                  \* "any" until a run first depends on it

vars == <<chan, user, onClose, roomObjs, rooms, peers, outbox, delivered,
          requestMap, deferreds, awaiting, timers, nextKey, claims, nextRoom,
          joinResults, ops, auth, jwt, recording, wire, joinedRoom, conn,
          dispatch>>


NoHandler == [kind |-> "none", room |-> 0]

\* The part of the state that room and channel operations thread through.
\* A step starts with nothing handed to any channel yet.
World == [chan |-> chan, user |-> user, onClose |-> onClose,
          roomObjs |-> roomObjs, rooms |-> rooms, peers |-> peers,
          outbox |-> [p \in PeerIds |-> <<>>],
          delivered |-> [p \in PeerIds |-> 0]]

Ok(w) == [w |-> w, threw |-> FALSE]
Threw(w) == [w |-> w, threw |-> TRUE]

\* ------------------------------------------------------------ channel
\* sendMessage hands the envelope to the socket; a closed channel drops it.
SendMessage(w, p, m) ==
    [w EXCEPT !.outbox[p] = Append(@, m),
              !.delivered[p] = IF w.chan[p] = "open" THEN @ + 1 ELSE @]

\* What the client behind p received in the last step.
Received(p) == SubSeq(outbox[p], 1, delivered[p])

\* ------------------------------------------------------- peer (PeerImpl)
\* A projection that puts the user's server-side id in the name field.
ToProtocolNameIsUserId(w, p) ==
    [peer |-> p, uid |-> "", name |-> w.user[p].id, email |-> w.user[p].email]

\* toProtocol: the public projection {id, name, email}
ToProtocol(w, p) ==
    [peer |-> p, uid |-> "", name |-> w.user[p].name, email |-> w.user[p].email]

\* RoomImpl.peers getter
RoomPeers(room) == <<room.host>> \o room.guests

\* ----------------------------------------------------- relay fan-out
RECURSIVE FanOut(_, _, _, _), FanOutToAll(_, _, _, _), FanOutPrunesClosed(_, _, _, _)

\* A fan-out that drops a member whose channel is closed from the peer
\* index instead of sending to it.
FanOutPrunesClosed(w, ps, origin, m) ==
    IF ps = <<>> THEN w
    ELSE FanOutPrunesClosed(
             IF Head(ps) = origin THEN w
             ELSE IF w.chan[Head(ps)] = "closed" THEN [w EXCEPT !.peers[Head(ps)] = 0]
             ELSE SendMessage(w, Head(ps), m),
             Tail(ps), origin, m)

\* A fan-out that does not skip the origin.
FanOutToAll(w, ps, origin, m) ==
    IF ps = <<>> THEN w
    ELSE FanOutToAll(SendMessage(w, Head(ps), m), Tail(ps), origin, m)

\* for (const peer of room.peers) { if (peer !== origin) send }
FanOut(w, ps, origin, m) ==
    IF ps = <<>> THEN w
    ELSE FanOut(IF Head(ps) # origin THEN SendMessage(w, Head(ps), m) ELSE w,
                Tail(ps), origin, m)

\* A sendBroadcast that forwards the envelope with the clientId it came with.
SendBroadcastUnstamped(w, origin, message) ==
    IF w.peers[origin] = 0 THEN Threw(w)
    ELSE Ok(FanOut(w, RoomPeers(w.roomObjs[w.peers[origin]]), origin, message))

\* A sendBroadcast that finds the room by the origin's room id in rooms.
SendBroadcastToInstalled(w, origin, message) ==
    IF w.peers[origin] = 0 THEN Threw(w)
    ELSE IF w.rooms[w.roomObjs[w.peers[origin]].id] = 0 THEN Ok(w)
    ELSE Ok(FanOut(w, RoomPeers(w.roomObjs[w.rooms[w.roomObjs[w.peers[origin]].id]]),
                   origin, [message EXCEPT !.clientId = origin]))

\* MessageRelay.sendBroadcast; origin.room throws when the peer index has
\* no entry for the origin.
SendBroadcast(w, origin, message) ==
    IF w.peers[origin] = 0 THEN Threw(w)
    ELSE Ok(FanOut(w, RoomPeers(w.roomObjs[w.peers[origin]]), origin,
                   [message EXCEPT !.clientId = origin]))

\* A sendNotification that hands the envelope over twice.
SendNotificationTwice(w, target, message) ==
    SendMessage(SendMessage(w, target, message), target, message)

\* MessageRelay.sendNotification
SendNotification(w, target, message) == SendMessage(w, target, message)

\* ------------------------------------------ room teardown (RoomManager)
RECURSIVE CloseRoom(_, _, _), CloseLoop(_, _, _), ChannelClose(_, _, _), OnCloseCallback(_, _, _)
RECURSIVE CloseLoopKeepsOpen(_, _, _)

\* A callback that tears the room down whoever closes.
OnCloseCallbackAlwaysCloses(w, p, d) ==
    IF w.onClose[p].kind = "none" THEN Ok(w)
    ELSE CloseRoom(w, w.onClose[p].room, d)

\* The callback join subscribed to the peer's channel close.
OnCloseCallback(w, p, d) ==
    CASE w.onClose[p].kind = "host" -> CloseRoom(w, w.onClose[p].room, d)
      [] w.onClose[p].kind = "guest" ->
            SendBroadcast(w, p, BroadcastMessageCreate("room/left", p, ToProtocol(w, p)))
      [] OTHER -> Ok(w)

\* The channel fires onClose exactly once.  Whether an exception thrown by
\* the callback reaches the caller of close() is fixed by the channel
\* implementation d: "propagate" or "contain".
FireOnClose(w, p, d) ==
    LET r == OnCloseCallback([w EXCEPT !.chan[p] = "closed"], p, d)
    IN  [w |-> r.w, threw |-> r.threw /\ d = "propagate"]

\* Channel.close(), called by the broker
ChannelClose(w, p, d) ==
    IF w.chan[p] = "open" THEN FireOnClose(w, p, d) ELSE Ok(w)

\* A teardown loop that unindexes the peers without closing their channels.
CloseLoopKeepsOpen(w, ps, d) ==
    IF ps = <<>> THEN Ok(w)
    ELSE CloseLoopKeepsOpen([w EXCEPT !.peers[Head(ps)] = 0], Tail(ps), d)

\* for (const peer of room.peers) { peers.delete(peer.id); peer.channel.close(); }
CloseLoop(w, ps, d) ==
    IF ps = <<>> THEN Ok(w)
    ELSE LET c == ChannelClose([w EXCEPT !.peers[Head(ps)] = 0], Head(ps), d)
         IN  IF c.threw THEN c ELSE CloseLoop(c.w, Tail(ps), d)

\* A closeRoom that, for an id without a room, unindexes the peers that
\* joined under that id.
CloseRoomSweeps(w, id, d) ==
    IF w.rooms[id] = 0
    THEN Ok([w EXCEPT !.peers = [p \in PeerIds |->
                                    IF w.onClose[p].room = id THEN 0 ELSE w.peers[p]]])
    ELSE LET room == w.roomObjs[w.rooms[id]]
             b == SendBroadcast(w, room.host,
                      BroadcastMessageCreate("room/closed", room.host, NoParams))
         IN  IF b.threw THEN b
             ELSE LET l == CloseLoop(b.w, RoomPeers(room), d)
                  IN  IF l.threw THEN l
                      ELSE Ok([l.w EXCEPT !.rooms[id] = 0])

\* RoomManager.closeRoom
CloseRoom(w, id, d) ==
    IF w.rooms[id] = 0 THEN Ok(w)
    ELSE LET room == w.roomObjs[w.rooms[id]]
             b == SendBroadcast(w, room.host,
                      BroadcastMessageCreate("room/closed", room.host, NoParams))
         IN  IF b.threw THEN b
             ELSE LET l == CloseLoop(b.w, RoomPeers(room), d)
                  IN  IF l.threw THEN l
                      ELSE Ok([l.w EXCEPT !.rooms[id] = 0])

\* ------------------------------------------------ join (RoomManager.join)
\* host branch: a new RoomImpl is installed under the room id
JoinHost(w, p, roomId) ==
    LET idx == Len(w.roomObjs) + 1
    IN  Ok([w EXCEPT !.roomObjs = Append(@, [id |-> roomId, host |-> p, guests |-> <<>>]),
                     !.rooms[roomId] = idx,
                     !.peers[p] = idx,
                     !.onClose[p] = [kind |-> "host", room |-> roomId]])

\* A guest branch that creates the room it does not find.
JoinGuestOrCreate(w, p, roomId) ==
    LET idx == w.rooms[roomId]
    IN  IF idx = 0 THEN JoinHost(w, p, roomId)
        ELSE LET w1 == [w EXCEPT !.peers[p] = idx,
                                 !.roomObjs[idx].guests = Append(@, p)]
                 b == SendBroadcast(w1, p,
                          BroadcastMessageCreate("room/joined", p, ToProtocol(w1, p)))
             IN  IF b.threw THEN b
                 ELSE Ok([b.w EXCEPT !.onClose[p] = [kind |-> "guest", room |-> roomId]])

\* A guest branch that puts the joiner in front of the earlier guests.
JoinGuestPrepend(w, p, roomId) ==
    LET idx == w.rooms[roomId]
    IN  IF idx = 0 THEN Threw(w)
        ELSE LET w1 == [w EXCEPT !.peers[p] = idx,
                                 !.roomObjs[idx].guests = <<p>> \o @]
                 b == SendBroadcast(w1, p,
                          BroadcastMessageCreate("room/joined", p, ToProtocol(w1, p)))
             IN  IF b.threw THEN b
                 ELSE Ok([b.w EXCEPT !.onClose[p] = [kind |-> "guest", room |-> roomId]])

\* guest branch: look the room up, index the peer, push it to guests,
\* broadcast room/joined and subscribe the room/left callback
JoinGuest(w, p, roomId) ==
    LET idx == w.rooms[roomId]
    IN  IF idx = 0 THEN Threw(w)
        ELSE LET w1 == [w EXCEPT !.peers[p] = idx,
                                 !.roomObjs[idx].guests = Append(@, p)]
                 b == SendBroadcast(w1, p,
                          BroadcastMessageCreate("room/joined", p, ToProtocol(w1, p)))
             IN  IF b.threw THEN b
                 ELSE Ok([b.w EXCEPT !.onClose[p] = [kind |-> "guest", room |-> roomId]])

\* A join that announces the joiner to the whole room, itself included,
\* and sends no peer/info.
JoinAnnounceOnly(w, p, roomId, host) ==
    LET j == IF host THEN JoinHost(w, p, roomId) ELSE JoinGuest(w, p, roomId)
    IN  IF j.threw \/ host THEN j
        ELSE Ok(SendMessage(j.w, p,
                    BroadcastMessageCreate("room/joined", p, ToProtocol(j.w, p))))

\* RoomManager.join: the branch, then peer/info to the joiner
Join(w, p, roomId, host) ==
    LET j == IF host THEN JoinHost(w, p, roomId) ELSE JoinGuest(w, p, roomId)
    IN  IF j.threw THEN j
        ELSE Ok(SendNotification(j.w, p,
                    NotificationMessageCreate("peer/info", ToProtocol(j.w, p))))

\* ------------------------------------------------------ Deferred<unknown>
Unused == [state |-> "unused", value |-> ""]
Pending == [state |-> "pending", value |-> ""]
Resolve(d, v) == IF d.state = "pending" THEN [state |-> "resolved", value |-> v] ELSE d
Reject(d, e) == IF d.state = "pending" THEN [state |-> "rejected", value |-> e] ELSE d

\* ------------------------------------------------- relay (MessageRelay)
Relay == [requestMap |-> requestMap, deferreds |-> deferreds, timers |-> timers]

Without(f, k) == [x \in DOMAIN f \ {k} |-> f[x]]

\* A dispose that leaves the table entry in place.
DisposeKeepsEntry(r, key) ==
    [requestMap |-> r.requestMap,
     timers |-> Without(r.timers, key),
     deferreds |-> [r.deferreds EXCEPT ![key] = Reject(@, "Request timed out")]]

\* the dispose closure of sendRequest, also the timer's callback
Dispose(r, key) ==
    [requestMap |-> Without(r.requestMap, key),
     timers |-> Without(r.timers, key),
     deferreds |-> [r.deferreds EXCEPT ![key] = Reject(@, "Request timed out")]]

\* requestMap.get(message.id.toString()): only a relay key can be found
KeyOf(id) == IF id[1] = "key" THEN id[2] ELSE 0

\* A pushResponse that settles the Deferred of a key that has no entry.
PushResponseNoLookup(r, receiver, message) ==
    LET key == KeyOf(message.id)
    IN  IF key \in DOMAIN r.deferreds
        THEN Dispose([r EXCEPT !.deferreds[key] =
                         [state |-> IF message.kind = "response"
                                    THEN "resolved" ELSE "rejected",
                          value |-> IF message.kind = "response"
                                    THEN message.response ELSE message.message]], key)
        ELSE r

\* MessageRelay.pushResponse
PushResponse(r, receiver, message) ==
    LET key == KeyOf(message.id)
    IN  IF key \in DOMAIN r.requestMap
        THEN Dispose([r EXCEPT !.deferreds[key] =
                         IF message.kind = "response"
                         THEN Resolve(@, message.response)
                         ELSE Reject(@, message.message)], key)
        ELSE r

\* sendRequest: the table entry, the armed timer and the fresh Deferred
SendRequestEntry(r, key, message) ==
    [requestMap |-> r.requestMap @@ (key :> [id |-> message.id]),
     timers |-> r.timers @@ (key :> 0),
     deferreds |-> [r.deferreds EXCEPT ![key] = Pending]]

\* A sendRequest that forwards the request under the id it came with.
TargetMessageKeepsId(message, key) == message

\* sendRequest: the envelope that goes to the target, under the relay key
TargetMessage(message, key) == [message EXCEPT !.id = Key(key)]

\* A timer that fires after twice the delay.
TimerDueLate(age) == age * TickMs >= 2 * RelayTimeoutMs

\* setTimeout(dispose, 300_000)
TimerDue(age) == age * TickMs >= RelayTimeoutMs

\* --------------------------------------------- continuations of await
\* target and reached record where sendRequest sent the request and whether
\* the target's channel was open then.
NoAwait == [kind |-> "none", peer |-> 0, id |-> NoId, version |-> "",
            room |-> 0, user |-> NoUser, target |-> 0, reached |-> FALSE]

\* A reply that is not re-keyed to the requester's own id.
PeerContinuationNoId(w, c, d) ==
    IF d.state = "resolved"
    THEN SendMessage(w, c.peer,
             Envelope("response", NoId, "", 0, NoParams, d.value, "", c.version))
    ELSE SendMessage(w, c.peer, ResponseErrorMessageCreate(NoId, d.value))

\* PeerImpl.receiveMessage after await sendRequest: the reply written on
\* the requester's channel under the id of its own request
PeerContinuation(w, c, d) ==
    IF d.state = "resolved"
    THEN SendMessage(w, c.peer,
             Envelope("response", c.id, "", 0, NoParams, d.value, "", c.version))
    ELSE SendMessage(w, c.peer, ResponseErrorMessageCreate(c.id, d.value))

\* A try block that accepts any answer of the host.
RequestJoinTryAnyAnswer(d) ==
    IF d.state = "resolved" THEN [threw |-> FALSE, value |-> "jwt"]
    ELSE [threw |-> TRUE, value |-> d.value]

\* RoomManager.requestJoin after await sendRequest: the try block throws
\* 'Join request has been rejected' on a falsy response, and the bare
\* catch around it replaces every error by 'Join request has timed out'.
RequestJoinTry(d) ==
    IF d.state = "resolved"
    THEN IF Truthy(d.value) THEN [threw |-> FALSE, value |-> "jwt"]
         ELSE [threw |-> TRUE, value |-> "Join request has been rejected"]
    ELSE [threw |-> TRUE, value |-> d.value]

RequestJoinOutcome(d) ==
    IF RequestJoinTry(d).threw THEN "Join request has timed out"
    ELSE RequestJoinTry(d).value

GuestClaim(c) == [room |-> c.room, user |-> c.user, host |-> FALSE]

\* ------------------------------------------ tokens (CredentialsManager)
\* A payload is a function from claim names to values.  The HS256
\* signature is modelled by its inputs: two signatures are equal exactly
\* when key, header and payload are.
Secrets == {"server-secret", "other-secret"}
ServerSecret == "server-secret"
IssueTimes == {"t1", "t2"}

\* RoomClaim and User payloads
Payloads ==
    {("room" :> r @@ "user" :> u @@ "host" :> h) :
        r \in {"R1", "R2"}, u \in {"Alice", "Bob"}, h \in {"true", "false"}}
    \cup {("id" :> i @@ "name" :> n) : i \in {"u1", "u2"}, n \in {"Alice", "Bob"}}

Sign(key, header, payload) == <<key, header, payload>>

\* generateJwt: SignJWT(payload).setProtectedHeader({alg: 'HS256'})
\* .setIssuedAt().sign(key); getJwtExpiration gives no expiration
GenerateJwt(payload, key, now) ==
    LET signed == ("iat" :> now) @@ payload
    IN  [header |-> "HS256", payload |-> signed, sig |-> Sign(key, "HS256", signed)]

\* A verifyJwt that does not check the signature.
VerifyJwtUnchecked(token, key) ==
    [ok |-> TRUE, payload |-> token.payload]

\* verifyJwt: jose.jwtVerify(jwt, key) returns the payload or throws
VerifyJwt(token, key) ==
    IF token.sig = Sign(key, token.header, token.payload)
    THEN [ok |-> TRUE, payload |-> token.payload]
    ELSE [ok |-> FALSE, payload |-> ("error" :> "AuthInvalid")]

\* What can happen to a token between signing and verification.
Tamperings == {"intact", "header", "payload", "signature"}
Tamper(token, how) ==
    CASE how = "header" -> [token EXCEPT !.header = "HS512"]
      [] how = "payload" ->
            [token EXCEPT !.payload =
                [f \in DOMAIN token.payload |->
                    IF f = CHOOSE g \in DOMAIN token.payload : g # "iat"
                    THEN "forged" ELSE token.payload[f]]]
      [] how = "signature" -> [token EXCEPT !.sig = <<"forged", @[2], @[3]>>]
      [] OTHER -> token

NoRoundTrip == [x |-> <<>>, signKey |-> "", now |-> "", tamper |-> "",
                done |-> FALSE, ok |-> FALSE, payload |-> <<>>]

\* --------------------------------- deferred logins (CredentialsManager)
MaxAuths == 2
MaxConfirms == 2
AuthTimeoutMs == 300000

AuthIds == 1..MaxAuths
ConfirmIds == 1..MaxConfirms
ConfirmTokens == {"c1", "c2"}
UserNames == {"Alice", "Bob"}

\* A confirmAuth call: its closure's confirmToken, its Deferred and its
\* timer (age in ticks, -1 when not armed or cleared).
NoAuthCall == [token |-> "", deferred |-> Unused, timer |-> -1]
\* A confirmUser call: where it is suspended, the DelayedAuth it looked up
\* at entry, and what it returned.  A jwt is named by the user it is for.
NoConfirm == [pc |-> "unused", token |-> "", auth |-> 0, name |-> "", result |-> ""]

NoAuths == [map |-> [t \in ConfirmTokens |-> 0],
            calls |-> [a \in AuthIds |-> NoAuthCall],
            confirms |-> [c \in ConfirmIds |-> NoConfirm],
            users |-> {},
            signed |-> {}]

AuthTimerDue(age) == age * TickMs >= AuthTimeoutMs

\* A dispose that leaves the rejection out.
AuthDisposeNoReject(s, a) ==
    [s EXCEPT !.calls[a].timer = -1,
              !.map[s.calls[a].token] = 0]

\* the dispose closure of confirmAuth, also its timer's callback
AuthDispose(s, a) ==
    [s EXCEPT !.calls[a].timer = -1,
              !.map[s.calls[a].token] = 0,
              !.calls[a].deferred = Reject(@, "Auth request timed out")]

\* ------------------------------------------------- client (Connection)
MaxSends == 2
MaxReceives == 3
ConnTimeoutMs == 60000

\* requestId values the connection draws; methods a request can name
ConnIds == 1..MaxSends
ConnMethods == {"peer/init", "fileSystem/stat"}
\* what an invoked handler does: return a value, throw, or return a
\* promise that is still pending
HandlerOutcomes == {"returns", "throws", "pending"}

NoConn == [requestId |-> 1,
           requestMap |-> {},
           deferreds |-> [i \in ConnIds |-> Unused],
           timers |-> [i \in ConnIds |-> -1],
           messageHandlers |-> {},
           running |-> {},
           written |-> <<>>,
           received |-> 0]

\* ResponseMessage.create
ResponseMessageCreate(id, response) ==
    Envelope("response", id, "", 0, NoParams, response, "", VERSION)

ConnTimerDue(age) == age * TickMs >= ConnTimeoutMs

\* the dispose closure of Connection.sendRequest, its timer's callback
ConnDispose(s, id) ==
    [s EXCEPT !.requestMap = @ \ {id},
              !.timers[id] = -1,
              !.deferreds[id] = Reject(@, "Request timed out")]

\* handleMessage, response branch: requestMap.get(message.id), then
\* resolve or reject
ConnPushResponse(s, message) ==
    IF message.id[1] = "cid" /\ message.id[2] \in s.requestMap
    THEN [s EXCEPT !.deferreds[message.id[2]] =
              IF message.kind = "response"
              THEN Resolve(@, message.response)
              ELSE Reject(@, message.message)]
    ELSE s

\* handleMessage, request branch, for a handler that does b
ConnHandleRequest(s, message, b) ==
    IF message.method \notin s.messageHandlers THEN s
    ELSE CASE b = "returns" ->
                [s EXCEPT !.written = <<ResponseMessageCreate(message.id, "true")>>]
           [] b = "throws" ->
                [s EXCEPT !.written = <<ResponseErrorMessageCreate(message.id, "denied")>>]
           [] OTHER ->
                [s EXCEPT !.running = @ \cup {[n |-> s.received + 1, id |-> message.id]}]

\* ------------------------------------------------------ committing state
\* A socket that hands a new envelope to the client before the older ones.
DeliverLifo(h, w) ==
    [q \in PeerIds |->
        [i \in 1..w.delivered[q] |-> [seq |-> ops, env |-> w.outbox[q][i]]] \o h[q]]

\* socket.send: the client receives what was sent on its open channel, in
\* the order it was sent
Deliver(h, w) ==
    [q \in PeerIds |->
        h[q] \o [i \in 1..w.delivered[q] |-> [seq |-> ops, env |-> w.outbox[q][i]]]]

Commit(w) ==
    /\ auth' = auth
    /\ jwt' = jwt
    /\ conn' = conn
    /\ recording' = recording
    /\ wire' = IF recording THEN Deliver(wire, w) ELSE wire
    /\ chan' = w.chan
    /\ user' = w.user
    /\ onClose' = w.onClose
    /\ roomObjs' = w.roomObjs
    /\ rooms' = w.rooms
    /\ peers' = w.peers
    /\ outbox' = w.outbox
    /\ delivered' = w.delivered

\* Store the relay state r and run the continuation of key if this step
\* settled its Deferred.
Settle(r, key, w) ==
    LET fired == /\ key \in KeyIds
                 /\ deferreds[key].state = "pending"
                 /\ r.deferreds[key].state # "pending"
    IN  /\ requestMap' = r.requestMap
        /\ deferreds' = r.deferreds
        /\ timers' = r.timers
        /\ IF fired /\ awaiting[key].kind = "peer"
           THEN Commit(PeerContinuation(w, awaiting[key], r.deferreds[key]))
           ELSE Commit(w)
        /\ IF fired /\ awaiting[key].kind = "join"
           THEN /\ joinResults' = [joinResults EXCEPT
                                     ![key] = RequestJoinOutcome(r.deferreds[key])]
                /\ claims' = IF RequestJoinOutcome(r.deferreds[key]) = "jwt"
                             THEN claims \cup {GuestClaim(awaiting[key])}
                             ELSE claims
           ELSE UNCHANGED <<joinResults, claims>>

\* ----------------------------------------------------------------- Init
\* Room claims are signed with JWT_PRIVATE_KEY and carry no expiration, so
\* the tokens of room 1 signed before this broker process started are
\* still valid: a host claim and a guest claim.
InitialClaims ==
    { [room |-> 1, user |-> [id |-> "u1", name |-> "Alice", email |-> "a@x.org"],
       host |-> TRUE],
      [room |-> 1, user |-> [id |-> "u2", name |-> "Bob", email |-> ""],
       host |-> FALSE] }

Dispatches == {"propagate", "contain"}

InitBroker ==
    /\ chan = [p \in PeerIds |-> "none"]
    /\ user = [p \in PeerIds |-> NoUser]
    /\ onClose = [p \in PeerIds |-> NoHandler]
    /\ roomObjs = <<>>
    /\ rooms = [r \in RoomIds |-> 0]
    /\ peers = [p \in PeerIds |-> 0]
    /\ outbox = [p \in PeerIds |-> <<>>]
    /\ delivered = [p \in PeerIds |-> 0]
    /\ requestMap = <<>>
    /\ deferreds = [k \in KeyIds |-> Unused]
    /\ awaiting = [k \in KeyIds |-> NoAwait]
    /\ timers = <<>>
    /\ nextKey = 1
    /\ claims = InitialClaims
    /\ nextRoom = 2
    /\ joinResults = [k \in KeyIds |-> ""]
    /\ ops = 0
    /\ joinedRoom = [p \in PeerIds |-> 0]
    /\ recording = FALSE
    /\ wire = [p \in PeerIds |-> <<>>]
    /\ dispatch = "any"

Init ==
    /\ InitBroker
    /\ jwt = NoRoundTrip
    /\ auth = NoAuths
    /\ conn = NoConn

\* -------------------------------------------------------------- actions
\* RoomManager.getRoomById
GetRoomById(w, id) == w.rooms[id]

\* A prepareRoom that installs the room right away, with the first
\* connection slot as its host.
PrepareRoomInstalls(u) ==
    /\ nextRoom <= MaxRooms
    /\ ops < MaxOps
    /\ ops' = ops + 1
    /\ claims' = claims \cup {[room |-> nextRoom, user |-> u, host |-> TRUE]}
    /\ nextRoom' = nextRoom + 1
    /\ Commit([World EXCEPT
                  !.roomObjs = Append(@, [id |-> nextRoom, host |-> 1, guests |-> <<>>]),
                  !.rooms[nextRoom] = Len(roomObjs) + 1])
    /\ UNCHANGED <<requestMap, deferreds, awaiting, timers, nextKey,
                   joinResults, dispatch, joinedRoom>>

\* POST /api/session/create -> RoomManager.prepareRoom
PrepareRoom(u) ==
    /\ nextRoom <= MaxRooms
    /\ ops < MaxOps
    /\ ops' = ops + 1
    /\ claims' = claims \cup {[room |-> nextRoom, user |-> u, host |-> TRUE]}
    /\ nextRoom' = nextRoom + 1
    /\ Commit(World)
    /\ UNCHANGED <<requestMap, deferreds, awaiting, timers, nextKey,
                   joinResults, dispatch, joinedRoom>>

\* A failure path that sends the Error and leaves the connection open.
AcceptFailureStaysOpen(w, p, text) ==
    SendMessage(w, p, ErrorMessageCreate(text))

\* socket.send(ErrorMessage.create(text)); socket.disconnect(true)
AcceptFailure(w, p, text) ==
    [SendMessage(w, p, ErrorMessageCreate(text)) EXCEPT !.chan[p] = "closed"]

\* x-jwt headers that carry no room claim: absent, or failing verifyJwt
BadTokens == {"absent", "invalid"}

\* io.on('connection') without a verifiable token: no peer is constructed
AcceptWithoutClaim(p, token) ==
    /\ chan[p] = "none"
    /\ \A q \in PeerIds : q < p => chan[q] # "none"
    /\ Commit(AcceptFailure([World EXCEPT !.chan[p] = "open"], p,
                  IF token = "absent" THEN "No JWT auth token set"
                  ELSE "Failed to join room"))
    /\ UNCHANGED <<requestMap, deferreds, awaiting, timers, nextKey, claims,
                   nextRoom, joinResults, ops, joinedRoom, dispatch>>

\* io.on('connection') with a verified room claim: construct the peer over
\* its channel and join; a failing join sends one Error and disconnects.
Accept(p, c) ==
    /\ chan[p] = "none"
    /\ \A q \in PeerIds : q < p => chan[q] # "none"
    /\ c \in claims
    /\ LET w0 == [World EXCEPT !.chan[p] = "open", !.user[p] = c.user]
           j == Join(w0, p, c.room, c.host)
       IN  IF j.threw
           THEN /\ Commit(AcceptFailure(j.w, p, "Failed to join room"))
                /\ UNCHANGED joinedRoom
           ELSE /\ Commit(j.w)
                /\ joinedRoom' = [joinedRoom EXCEPT ![p] = j.w.peers[p]]
    /\ UNCHANGED <<requestMap, deferreds, awaiting, timers, nextKey, claims,
                   nextRoom, joinResults, ops, dispatch>>

\* The transport of p disconnects: the channel closes and fires onClose.
Disconnect(p) ==
    /\ chan[p] = "open"
    /\ \E d \in Dispatches :
          /\ dispatch \in {"any", d}
          /\ Commit(FireOnClose(World, p, d).w)
          /\ dispatch' = IF \A e \in Dispatches :
                               FireOnClose(World, p, e).w = FireOnClose(World, p, d).w
                          THEN dispatch ELSE d
    /\ UNCHANGED <<requestMap, deferreds, awaiting, timers, nextKey, claims,
                   nextRoom, joinResults, ops, joinedRoom>>

\* POST /api/session/join/:room -> RoomManager.requestJoin(room, user)
RequestJoin(roomId, u) ==
    /\ rooms[roomId] # 0
    /\ ops < MaxOps
    /\ LET room == roomObjs[rooms[roomId]]
           message == RequestMessageCreate("peer/join", <<"sid", nextKey>>,
                          [peer |-> 0, uid |-> u.id, name |-> u.name, email |-> u.email])
           r == SendRequestEntry(Relay, nextKey, message)
       IN  /\ awaiting' = [awaiting EXCEPT ![nextKey] =
                  [NoAwait EXCEPT !.kind = "join", !.room = room.id, !.user = u,
                                  !.target = room.host,
                                  !.reached = (chan[room.host] = "open")]]
           /\ Settle(r, nextKey, SendMessage(World, room.host, TargetMessage(message, nextKey)))
    /\ nextKey' = nextKey + 1
    /\ ops' = ops + 1
    /\ UNCHANGED <<nextRoom, dispatch, joinedRoom>>

\* Relay keys the client behind p has seen: ids of the requests it received.
\* A key is a 24-character secure random string, so a client can only
\* present one it was sent.
KnownKeys(p) ==
    {k \in KeyIds : awaiting[k].target = p /\ awaiting[k].reached}

\* PeerImpl.receiveMessage, request branch: relay to the room host and
\* await; this.room throwing is caught and answered with a ResponseError.
ReceiveRequest(p, i) ==
    /\ chan[p] = "open"
    /\ ops < MaxOps
    /\ LET message == RequestMessageCreate("peer/init", CId(i), NoParams)
       IN  IF peers[p] = 0
           THEN /\ Commit(SendMessage(World, p,
                      ResponseErrorMessageCreate(message.id,
                          "This peer doesn't belong to any room")))
                /\ UNCHANGED <<requestMap, deferreds, awaiting, timers, nextKey,
                               joinResults, claims>>
           ELSE /\ awaiting' = [awaiting EXCEPT ![nextKey] =
                       [NoAwait EXCEPT !.kind = "peer", !.peer = p,
                                       !.id = message.id, !.version = message.version,
                                       !.target = roomObjs[peers[p]].host,
                                       !.reached = (chan[roomObjs[peers[p]].host] = "open")]]
                /\ Settle(SendRequestEntry(Relay, nextKey, message), nextKey,
                          SendMessage(World, roomObjs[peers[p]].host,
                                      TargetMessage(message, nextKey)))
                /\ nextKey' = nextKey + 1
    /\ ops' = ops + 1
    /\ UNCHANGED <<nextRoom, dispatch, joinedRoom>>

\* PeerImpl.receiveMessage, response / response-error branch
ReceiveResponse(p, id, kind, value) ==
    /\ chan[p] = "open"
    /\ ops < MaxOps
    /\ KeyOf(id) # 0 => KeyOf(id) \in KnownKeys(p)
    /\ LET message == IF kind = "response"
                      THEN Envelope("response", id, "", 0, NoParams, value, "", VERSION)
                      ELSE ResponseErrorMessageCreate(id, value)
       IN  Settle(PushResponse(Relay, p, message), KeyOf(id), World)
    /\ ops' = ops + 1
    /\ UNCHANGED <<awaiting, nextKey, nextRoom, dispatch, joinedRoom>>

\* PeerImpl.receiveMessage, notification branch: to the room host; a throw
\* of this.room rejects the handler's promise and nothing else happens.
ReceiveNotification(p) ==
    /\ chan[p] = "open"
    /\ ops < MaxOps
    /\ LET message == NotificationMessageCreate("editor/open", NoParams)
       IN  IF peers[p] = 0 THEN Commit(World)
           ELSE Commit(SendNotification(World, roomObjs[peers[p]].host, message))
    /\ ops' = ops + 1
    /\ UNCHANGED <<requestMap, deferreds, awaiting, timers, nextKey, claims,
                   nextRoom, joinResults, dispatch, joinedRoom>>

\* clientId values an inbound broadcast can carry: the '' that
\* Connection.sendBroadcast puts there (0), or any peer's id
SenderClientIds == {0} \cup PeerIds

\* PeerImpl.receiveMessage, broadcast branch
ReceiveBroadcast(p, clientId) ==
    /\ chan[p] = "open"
    /\ ops < MaxOps
    /\ Commit(SendBroadcast(World, p,
                  BroadcastMessageCreate("editor/update", clientId, NoParams)).w)
    /\ ops' = ops + 1
    /\ UNCHANGED <<requestMap, deferreds, awaiting, timers, nextKey, claims,
                   nextRoom, joinResults, dispatch, joinedRoom>>

\* The timer armed by sendRequest expires and runs dispose.
Timeout(key) ==
    /\ key \in DOMAIN timers
    /\ TimerDue(timers[key])
    /\ Settle(Dispose(Relay, key), key, World)
    /\ UNCHANGED <<awaiting, nextKey, nextRoom, ops, dispatch, joinedRoom>>

\* Time passes; a due timer runs before time moves on.
Tick ==
    /\ DOMAIN timers # {}
    /\ \A key \in DOMAIN timers : ~TimerDue(timers[key])
    /\ timers' = [key \in DOMAIN timers |-> timers[key] + 1]
    /\ Commit(World)
    /\ UNCHANGED <<requestMap, deferreds, awaiting, nextKey,
                   claims, nextRoom, joinResults, ops, dispatch, joinedRoom>>

Next ==
    \/ \E u \in Callers : PrepareRoom(u)
    \/ \E p \in PeerIds, c \in claims : Accept(p, c)
    \/ \E p \in PeerIds, token \in BadTokens : AcceptWithoutClaim(p, token)
    \/ \E p \in PeerIds : Disconnect(p)
    \/ \E roomId \in RoomIds, u \in Callers : RequestJoin(roomId, u)
    \/ \E p \in PeerIds, i \in ClientIds : ReceiveRequest(p, i)
    \/ \E p \in PeerIds, k \in 0..MaxOps, v \in Values :
          ReceiveResponse(p, IF k = 0 THEN CId(1) ELSE Key(k), "response", v)
    \/ \E p \in PeerIds, k \in 0..MaxOps, e \in ErrorTexts :
          ReceiveResponse(p, IF k = 0 THEN CId(1) ELSE Key(k), "response-error", e)
    \/ \E p \in PeerIds : ReceiveNotification(p)
    \/ \E p \in PeerIds, clientId \in SenderClientIds : ReceiveBroadcast(p, clientId)
    \/ \E key \in KeyIds : Timeout(key)
    \/ Tick

Spec == Init /\ [][Next]_vars

\* ================================================================ claims
\* C1: a broadcast received from origin o, a member of room r, is handed
\* exactly once to the channel of every peer of r.peers other than o, with
\* clientId = o, and to no other channel; o itself gets nothing.
C1_BroadcastFanOut ==
    [][\A o \in PeerIds, c \in PeerIds :
          (ReceiveBroadcast(o, c) /\ peers[o] # 0) =>
              LET r == roomObjs[peers[o]]
                  members == {r.host} \cup {r.guests[i] : i \in DOMAIN r.guests}
                  m == [version |-> VERSION, kind |-> "broadcast", id |-> NoId,
                        method |-> "editor/update", clientId |-> o,
                        params |-> NoParams, response |-> "", message |-> ""]
              IN  \A q \in PeerIds :
                     /\ outbox'[q] = IF q \in members \ {o} THEN <<m>> ELSE <<>>
                     /\ delivered'[q] = IF chan[q] = "open" THEN Len(outbox'[q]) ELSE 0
      ]_vars

\* A guest's broadcast has just reached the two other members of its room.
C1_Witness ==
    \E o \in PeerIds :
        /\ peers[o] # 0
        /\ roomObjs[peers[o]].host # o
        /\ outbox[o] = <<>>
        /\ \A q \in PeerIds \ {o} :
              /\ Len(outbox[q]) = 1
              /\ delivered[q] = 1
              /\ outbox[q][1].kind = "broadcast"
              /\ outbox[q][1].method = "editor/update"
              /\ outbox[q][1].clientId = o

\* C2: a relayed request is settled exactly once: its Deferred is pending
\* exactly while its key is in the table, the step that settles it removes
\* the entry and its timer, and a settled Deferred never changes again.
C2_SettledOnce ==
    /\ [](\A k \in KeyIds :
             /\ (k \in DOMAIN requestMap) <=> (deferreds[k].state = "pending")
             /\ (k \in DOMAIN timers) <=> (k \in DOMAIN requestMap))
    /\ [][\A k \in KeyIds :
             /\ deferreds[k].state \in {"resolved", "rejected"} =>
                    deferreds'[k] = deferreds[k]
             /\ (deferreds[k].state = "pending" /\ deferreds'[k].state # "pending") =>
                    k \notin DOMAIN requestMap'
      ]_vars

\* A request timed out, and a response to it that arrived later found no
\* entry.
C2_Witness ==
    \E k \in KeyIds :
        /\ deferreds[k] = [state |-> "rejected", value |-> "Request timed out"]
        /\ k \notin DOMAIN requestMap
        /\ ops = MaxOps
        /\ awaiting[k].kind = "peer"
        /\ \A p \in PeerIds : outbox[p] = <<>>

\* C3: when the host answers the relayed request of origin o, o gets one
\* envelope of the same kind under the id i of its own request, carrying
\* the host's value or message; no envelope carries the relay key.
C3_ReplyUnderOriginalId ==
    [][\A p \in PeerIds, k \in KeyIds, kind \in {"response", "response-error"},
          v \in Values \cup ErrorTexts :
          (/\ ReceiveResponse(p, Key(k), kind, v)
           /\ k \in DOMAIN requestMap
           /\ awaiting[k].kind = "peer") =>
              LET o == awaiting[k].peer
                  reply == [version |-> VERSION, kind |-> kind,
                            id |-> requestMap[k].id, method |-> "", clientId |-> 0,
                            params |-> NoParams,
                            response |-> IF kind = "response" THEN v ELSE "",
                            message |-> IF kind = "response" THEN "" ELSE v]
              IN  /\ p = roomObjs[joinedRoom[o]].host
                  /\ requestMap[k].id[1] = "cid"
                  /\ \A q \in PeerIds :
                        outbox'[q] = IF q = o THEN <<reply>> ELSE <<>>
      ]_vars

\* A guest has just received the host's response under its own id.
C3_Witness ==
    \E o \in PeerIds :
        /\ peers[o] # 0
        /\ roomObjs[peers[o]].host # o
        /\ Len(outbox[o]) = 1
        /\ delivered[o] = 1
        /\ outbox[o][1].kind = "response"
        /\ outbox[o][1].id = CId(1)
        /\ outbox[o][1].response = "true"

\* C4: every accepted peer whose channel is open is in the peer index, and
\* the room it is indexed under has it among its peers.
C4_LivePeersIndexed ==
    \A p \in PeerIds :
        (chan[p] = "open") =>
            /\ peers[p] # 0
            /\ peers[p] \in DOMAIN roomObjs
            /\ \E i \in DOMAIN RoomPeers(roomObjs[peers[p]]) :
                  RoomPeers(roomObjs[peers[p]])[i] = p

\* A room was torn down and another peer is still live.
C4_Witness ==
    /\ \E p \in PeerIds : chan[p] = "closed" /\ onClose[p].kind = "host"
    /\ \E p \in PeerIds : chan[p] = "open" /\ peers[p] # 0

\* C5: the peers of a room are its host followed by its guests, the guests
\* being exactly the peers accepted as guests into it, in the order of
\* their acceptance (connection slots are taken in increasing order).
C5_HostThenGuestsInJoinOrder ==
    \A x \in DOMAIN roomObjs :
        LET r == roomObjs[x]
        IN  /\ RoomPeers(r)[1] = r.host
            /\ Len(RoomPeers(r)) = 1 + Len(r.guests)
            /\ onClose[r.host].kind = "host" /\ joinedRoom[r.host] = x
            /\ {RoomPeers(r)[i] : i \in 2..Len(RoomPeers(r))}
                  = {p \in PeerIds : joinedRoom[p] = x /\ onClose[p].kind = "guest"}
            /\ \A i, j \in 2..Len(RoomPeers(r)) :
                  i < j => RoomPeers(r)[i] < RoomPeers(r)[j]

\* A room with a host and two guests.
C5_Witness ==
    \E x \in DOMAIN roomObjs : Len(roomObjs[x].guests) = 2

\* C6: when the channel of the host of room r closes, every guest of r
\* whose channel is open is sent room/closed and then has its channel
\* closed, r is no longer installed under its id, and no member of r is
\* left in the peer index.
C6_HostCloseTearsDown ==
    [][\A h \in PeerIds :
          (Disconnect(h) /\ onClose[h].kind = "host") =>
              LET x == joinedRoom[h]
                  r == roomObjs[x]
              IN  /\ \A i \in DOMAIN r.guests :
                        chan[r.guests[i]] = "open" =>
                            /\ \E n \in 1..delivered'[r.guests[i]] :
                                  /\ outbox'[r.guests[i]][n].kind = "broadcast"
                                  /\ outbox'[r.guests[i]][n].method = "room/closed"
                            /\ chan'[r.guests[i]] = "closed"
                  /\ rooms'[r.id] # x
                  /\ \A i \in DOMAIN RoomPeers(r) : peers'[RoomPeers(r)[i]] = 0
      ]_vars

\* C7: when a guest's join is accepted, every peer already in the room is
\* handed exactly one room/joined broadcast carrying the joiner's
\* projection, the joiner is handed exactly one peer/info notification with
\* its own projection and no room/joined, and the joiner is then the last
\* of the room's peers.
C7_GuestJoinAnnounced ==
    [][\A p \in PeerIds, c \in claims :
          (Accept(p, c) /\ ~c.host /\ rooms[c.room] # 0) =>
              LET x == rooms[c.room]
                  r == roomObjs[x]
                  before == {r.host} \cup {r.guests[i] : i \in DOMAIN r.guests}
                  proj == [peer |-> p, uid |-> "", name |-> c.user.name,
                           email |-> c.user.email]
                  joined == [version |-> VERSION, kind |-> "broadcast", id |-> NoId,
                             method |-> "room/joined", clientId |-> p,
                             params |-> proj, response |-> "", message |-> ""]
                  info == [version |-> VERSION, kind |-> "notification", id |-> NoId,
                           method |-> "peer/info", clientId |-> 0,
                           params |-> proj, response |-> "", message |-> ""]
              IN  /\ \A q \in PeerIds :
                        outbox'[q] = IF q = p THEN <<info>>
                                     ELSE IF q \in before THEN <<joined>> ELSE <<>>
                  /\ delivered'[p] = 1
                  /\ chan'[p] = "open"
                  /\ peers'[p] = x
                  /\ RoomPeers(roomObjs'[x]) = Append(RoomPeers(r), p)
      ]_vars

\* A second guest has just joined: host and first guest were told, the
\* joiner got its peer/info.
C7_Witness ==
    \E p \in PeerIds :
        /\ onClose[p].kind = "guest"
        /\ Len(outbox[p]) = 1
        /\ outbox[p][1].method = "peer/info"
        /\ outbox[p][1].params.peer = p
        /\ \A q \in PeerIds \ {p} :
              /\ Len(outbox[q]) = 1
              /\ outbox[q][1].method = "room/joined"
              /\ outbox[q][1].params.peer = p
              /\ delivered[q] = 1

\* C8: requestJoin returns a guest claim only in the step in which the peer
\* that joined as host of the requested room, to which the peer/join
\* request was sent, answers it with true; every other outcome of the
\* request issues no claim.
C8_ClaimOnlyAfterApproval ==
    /\ [](\A k \in KeyIds :
             joinResults[k] = "jwt" =>
                 /\ awaiting[k].kind = "join"
                 /\ deferreds[k] = [state |-> "resolved", value |-> "true"])
    /\ [][/\ \A k \in KeyIds :
                (joinResults'[k] = "jwt" /\ joinResults[k] # "jwt") =>
                    /\ ReceiveResponse(awaiting[k].target, Key(k), "response", "true")
                    /\ onClose[awaiting[k].target] =
                          [kind |-> "host", room |-> awaiting[k].room]
                    /\ [room |-> awaiting[k].room, user |-> awaiting[k].user,
                        host |-> FALSE] \in claims'
          /\ \A c \in claims' \ claims :
                \/ c.host
                \/ \E k \in KeyIds :
                      /\ joinResults'[k] = "jwt" /\ joinResults[k] # "jwt"
                      /\ c.room = awaiting[k].room /\ c.user = awaiting[k].user
      ]_vars

\* A join request was approved by the host and its claim issued.
C8_Witness ==
    \E k \in KeyIds :
        /\ joinResults[k] = "jwt"
        /\ [room |-> awaiting[k].room, user |-> awaiting[k].user, host |-> FALSE]
              \in claims

\* C9: when the host answers a peer/join request with false, requestJoin
\* fails with the rejection message, which differs from the failure of an
\* unanswered request.
C9_RejectionDistinct ==
    \A k \in KeyIds :
        (awaiting[k].kind = "join"
           /\ deferreds[k] = [state |-> "resolved", value |-> "false"]) =>
            /\ joinResults[k] = "Join request has been rejected"
            /\ joinResults[k] # "Join request has timed out"

C11_UnknownResponseDropped ==
    [][\A p \in PeerIds, k \in 0..MaxOps, kind \in {"response", "response-error"},
          v \in Values \cup ErrorTexts :
          (/\ ReceiveResponse(p, IF k = 0 THEN CId(1) ELSE Key(k), kind, v)
           /\ k \notin DOMAIN requestMap) =>
              /\ requestMap' = requestMap
              /\ timers' = timers
              /\ deferreds' = deferreds
              /\ joinResults' = joinResults
              /\ claims' = claims
              /\ \A q \in PeerIds : outbox'[q] = <<>> /\ delivered'[q] = 0
              /\ <<chan', rooms', roomObjs', peers'>> = <<chan, rooms, roomObjs, peers>>
      ]_vars

\* The host's join request timed out and the host's late answer, the last
\* input, left the timeout outcome in place.
C11_Witness ==
    \E k \in KeyIds :
        /\ awaiting[k].kind = "join"
        /\ awaiting[k].reached
        /\ deferreds[k] = [state |-> "rejected", value |-> "Request timed out"]
        /\ joinResults[k] = "Join request has timed out"
        /\ requestMap = <<>>
        /\ nextKey = 2
        /\ ops = 2
        /\ \A q \in PeerIds : outbox[q] = <<>>

\* C12: on every failing accept path (no token, a token that fails
\* verification, a join that fails) the connection is handed exactly one
\* Error envelope while still open and is then disconnected; its peer is in
\* no room and not in the peer index, and nobody else is sent anything.
C12_FailedAcceptOneErrorThenDisconnect ==
    [][\A p \in PeerIds :
          (\/ \E token \in BadTokens : AcceptWithoutClaim(p, token)
           \/ \E c \in claims : Accept(p, c) /\ ~c.host /\ rooms[c.room] = 0) =>
              /\ Len(outbox'[p]) = 1
              /\ outbox'[p][1].kind = "error"
              /\ outbox'[p][1].version = VERSION
              /\ delivered'[p] = 1
              /\ chan'[p] = "closed"
              /\ peers'[p] = 0
              /\ \A x \in DOMAIN roomObjs' :
                    /\ roomObjs'[x].host # p
                    /\ \A i \in DOMAIN roomObjs'[x].guests : roomObjs'[x].guests[i] # p
              /\ \A q \in PeerIds \ {p} : outbox'[q] = <<>>
      ]_vars

\* A connection has just been refused while a room is active.
C12_Witness ==
    \E p \in PeerIds :
        /\ chan[p] = "closed"
        /\ onClose[p].kind = "none"
        /\ outbox[p] = <<ErrorMessageCreate("No JWT auth token set")>>
        /\ delivered[p] = 1
        /\ \E id \in RoomIds : rooms[id] # 0
        /\ \E q \in PeerIds :
              /\ chan[q] = "closed"
              /\ onClose[q].kind = "none"
              /\ q # p

\* C13: a join with hostFlag false for a room id that has no active room
\* throws, and rooms, every room's guests, and the peer index stay as they
\* were; no member of any room is sent anything.
C13_JoinUnknownRoomRejected ==
    [][\A p \in PeerIds, c \in claims :
          (Accept(p, c) /\ ~c.host /\ rooms[c.room] = 0) =>
              /\ Join([World EXCEPT !.chan[p] = "open", !.user[p] = c.user],
                      p, c.room, FALSE).threw
              /\ rooms' = rooms
              /\ roomObjs' = roomObjs
              /\ peers' = peers
              /\ onClose'[p].kind = "none"
              /\ \A q \in PeerIds \ {p} : outbox'[q] = <<>> /\ chan'[q] = chan[q]
      ]_vars

\* A guest was refused for room 1, which is not active, while room 2 is
\* active with its host connected.
C13_Witness ==
    \E p \in PeerIds :
        /\ rooms[1] = 0
        /\ rooms[2] # 0
        /\ chan[roomObjs[rooms[2]].host] = "open"
        /\ chan[p] = "closed"
        /\ onClose[p].kind = "none"
        /\ outbox[p] = <<ErrorMessageCreate("Failed to join room")>>
        /\ user[p].name = "Bob"

\* C14: when the channel of a guest g closes, every other peer of g's room
\* is handed one room/left broadcast carrying g's public projection, and
\* the room is not dissolved: rooms and the room's host are unchanged and
\* the other members' channels stay open.
C14_GuestCloseKeepsRoom ==
    [][\A g \in PeerIds :
          (Disconnect(g) /\ onClose[g].kind = "guest") =>
              LET x == joinedRoom[g]
                  r == roomObjs[x]
                  others == ({r.host} \cup {r.guests[i] : i \in DOMAIN r.guests}) \ {g}
                  left == [version |-> VERSION, kind |-> "broadcast", id |-> NoId,
                           method |-> "room/left", clientId |-> g,
                           params |-> [peer |-> g, uid |-> "", name |-> user[g].name,
                                       email |-> user[g].email],
                           response |-> "", message |-> ""]
              IN  /\ \A q \in PeerIds :
                        outbox'[q] = IF q \in others THEN <<left>> ELSE <<>>
                  /\ \A q \in others :
                        /\ chan'[q] = chan[q]
                        /\ delivered'[q] = IF chan[q] = "open" THEN 1 ELSE 0
                  /\ rooms' = rooms
                  /\ roomObjs'[x].host = r.host
                  /\ peers' = peers
      ]_vars

\* A guest has just left a room of three: host and the other guest, both
\* still connected, were told.
C14_Witness ==
    \E g \in PeerIds :
        /\ chan[g] = "closed"
        /\ onClose[g].kind = "guest"
        /\ outbox[g] = <<>>
        /\ \A q \in PeerIds \ {g} :
              /\ chan[q] = "open"
              /\ delivered[q] = 1
              /\ Len(outbox[q]) = 1
              /\ outbox[q][1].method = "room/left"
              /\ outbox[q][1].params.peer = g
        /\ \E id \in RoomIds : rooms[id] = joinedRoom[g]

\* ------------------------------------------- ordering of relayed envelopes
\* The broker after the first n connections joined room 1, the first as
\* host and the others as guests, each with the token of InitialClaims.
RECURSIVE Joined(_)
Joined(n) ==
    IF n = 0
    THEN [chan |-> [p \in PeerIds |-> "none"], user |-> [p \in PeerIds |-> NoUser],
          onClose |-> [p \in PeerIds |-> NoHandler], roomObjs |-> <<>>,
          rooms |-> [r \in RoomIds |-> 0], peers |-> [p \in PeerIds |-> 0],
          outbox |-> [p \in PeerIds |-> <<>>], delivered |-> [p \in PeerIds |-> 0]]
    ELSE LET c == CHOOSE x \in InitialClaims : x.host = (n = 1)
         IN  Join([Joined(n - 1) EXCEPT !.chan[n] = "open", !.user[n] = c.user,
                                        !.outbox = [p \in PeerIds |-> <<>>],
                                        !.delivered = [p \in PeerIds |-> 0]],
                  n, c.room, c.host).w

\* A room with every connection slot joined.
InitJoined ==
    /\ chan = Joined(MaxPeers).chan
    /\ user = Joined(MaxPeers).user
    /\ onClose = Joined(MaxPeers).onClose
    /\ roomObjs = Joined(MaxPeers).roomObjs
    /\ rooms = Joined(MaxPeers).rooms
    /\ peers = Joined(MaxPeers).peers
    /\ outbox = Joined(MaxPeers).outbox
    /\ delivered = Joined(MaxPeers).delivered
    /\ requestMap = <<>>
    /\ deferreds = [k \in KeyIds |-> Unused]
    /\ awaiting = [k \in KeyIds |-> NoAwait]
    /\ timers = <<>>
    /\ nextKey = 1
    /\ claims = InitialClaims
    /\ nextRoom = 2
    /\ joinResults = [k \in KeyIds |-> ""]
    /\ ops = 0
    /\ joinedRoom = Joined(MaxPeers).peers
    /\ wire = [p \in PeerIds |-> <<>>]
    /\ dispatch = "any"
    /\ jwt = NoRoundTrip
    /\ auth = NoAuths
    /\ conn = NoConn

\* The joined room, from where the envelopes the clients receive are
\* recorded.
InitOrder ==
    /\ InitJoined
    /\ recording = TRUE

\* The inputs of connected clients and the relay's timers.
NextOrder ==
    \/ \E p \in PeerIds, i \in ClientIds : ReceiveRequest(p, i)
    \/ \E p \in PeerIds, k \in 0..MaxOps, v \in Values :
          ReceiveResponse(p, IF k = 0 THEN CId(1) ELSE Key(k), "response", v)
    \/ \E p \in PeerIds, k \in 0..MaxOps, e \in ErrorTexts :
          ReceiveResponse(p, IF k = 0 THEN CId(1) ELSE Key(k), "response-error", e)
    \/ \E p \in PeerIds : ReceiveNotification(p)
    \/ \E p \in PeerIds, clientId \in SenderClientIds : ReceiveBroadcast(p, clientId)
    \/ \E key \in KeyIds : Timeout(key)
    \/ Tick

SpecOrder == InitOrder /\ [][NextOrder]_vars

brokerVars == <<chan, user, onClose, roomObjs, rooms, peers, outbox, delivered,
                requestMap, deferreds, awaiting, timers, nextKey, claims, nextRoom,
                joinResults, ops, recording, wire, joinedRoom, dispatch>>

\* A payload signed at some time with some secret, and possibly altered.
InitJwt ==
    /\ InitBroker
    /\ \E x \in Payloads, k \in Secrets, t \in IssueTimes, how \in Tamperings :
          jwt = [NoRoundTrip EXCEPT !.x = x, !.signKey = k, !.now = t, !.tamper = how]
    /\ auth = NoAuths
    /\ conn = NoConn

\* The broker verifies the token with its own secret.
VerifyToken ==
    /\ ~jwt.done
    /\ LET r == VerifyJwt(Tamper(GenerateJwt(jwt.x, jwt.signKey, jwt.now), jwt.tamper),
                          ServerSecret)
       IN  jwt' = [jwt EXCEPT !.done = TRUE, !.ok = r.ok, !.payload = r.payload]
    /\ UNCHANGED <<brokerVars, auth, conn>>

NextJwt == VerifyToken

SpecJwt == InitJwt /\ [][NextJwt]_vars

\* C16 as stated: verifying an intact token signed with the broker's secret
\* returns exactly the payload that was signed, and an altered token or one
\* signed with another secret fails.
C16_RoundTripExact ==
    jwt.done =>
        IF jwt.tamper = "intact" /\ jwt.signKey = ServerSecret
        THEN jwt.ok /\ jwt.payload = jwt.x
        ELSE ~jwt.ok

\* C16: verifying an intact token signed with the broker's secret returns
\* the payload that was signed, every claim unchanged, extended by the iat
\* claim set at signing; an altered token or one signed with another secret
\* fails.
C16_RoundTripAddsIat ==
    jwt.done =>
        IF jwt.tamper = "intact" /\ jwt.signKey = ServerSecret
        THEN /\ jwt.ok
             /\ DOMAIN jwt.payload = DOMAIN jwt.x \cup {"iat"}
             /\ \A f \in DOMAIN jwt.x : jwt.payload[f] = jwt.x[f]
             /\ jwt.payload["iat"] = jwt.now
        ELSE ~jwt.ok /\ jwt.payload = ("error" :> "AuthInvalid")

\* A guest room claim came back from its round trip.
C16_Witness ==
    /\ jwt.done
    /\ jwt.ok
    /\ jwt.tamper = "intact"
    /\ jwt.x = ("room" :> "R1" @@ "user" :> "Bob" @@ "host" :> "false")
    /\ jwt.payload["room"] = "R1"

\* ------------------------------------------------------ deferred logins
\* confirmUser up to its first await: the registry lookup
ConfirmUserEntryRegistersFirst(s, c, t, n) ==
    IF s.map[t] = 0
    THEN [s EXCEPT !.users = @ \cup {n},
                   !.confirms[c] = [pc |-> "failed", token |-> t, auth |-> 0,
                                    name |-> n, result |-> "Login timed out"]]
    ELSE [s EXCEPT !.confirms[c] = [pc |-> "register", token |-> t, auth |-> s.map[t],
                                    name |-> n, result |-> ""]]

ConfirmUserEntry(s, c, t, n) ==
    IF s.map[t] = 0
    THEN [s EXCEPT !.confirms[c] = [pc |-> "failed", token |-> t, auth |-> 0,
                                    name |-> n, result |-> "Login timed out"]]
    ELSE [s EXCEPT !.confirms[c] = [pc |-> "register", token |-> t, auth |-> s.map[t],
                                    name |-> n, result |-> ""]]

\* confirmUser after generateJwt: resolve, dispose, return the jwt
ConfirmUserReturn(s, c) ==
    LET a == s.confirms[c].auth
        j == s.confirms[c].name
    IN  [AuthDispose([s EXCEPT !.calls[a].deferred = Resolve(@, j)], a)
            EXCEPT !.confirms[c].pc = "returned", !.confirms[c].result = j]

InitAuth ==
    /\ InitBroker
    /\ jwt = NoRoundTrip
    /\ auth = NoAuths
    /\ conn = NoConn

\* POST /api/login/confirm/:token -> confirmAuth(token)
ConfirmAuth(t) ==
    /\ \E a \in AuthIds :
          /\ auth.calls[a].deferred.state = "unused"
          /\ \A b \in AuthIds : b < a => auth.calls[b].deferred.state # "unused"
          /\ auth' = [auth EXCEPT !.calls[a] = [token |-> t, deferred |-> Pending,
                                                timer |-> 0],
                                  !.map[t] = a]
    /\ UNCHANGED <<brokerVars, jwt, conn>>

\* POST /api/login/simple -> confirmUser(token, user), up to the first await
ConfirmUser(t, n) ==
    /\ \E c \in ConfirmIds :
          /\ auth.confirms[c].pc = "unused"
          /\ \A b \in ConfirmIds : b < c => auth.confirms[b].pc # "unused"
          /\ auth' = ConfirmUserEntry(auth, c, t, n)
    /\ UNCHANGED <<brokerVars, jwt, conn>>

\* await userManager.registerUser(user) completes
RegisterUserDone(c) ==
    /\ auth.confirms[c].pc = "register"
    /\ auth' = [auth EXCEPT !.users = @ \cup {auth.confirms[c].name},
                            !.confirms[c].pc = "sign"]
    /\ UNCHANGED <<brokerVars, jwt, conn>>

\* await generateJwt(userClaim) completes; the rest of confirmUser runs
GenerateJwtDone(c) ==
    /\ auth.confirms[c].pc = "sign"
    /\ auth' = ConfirmUserReturn([auth EXCEPT !.signed = @ \cup {auth.confirms[c].name}], c)
    /\ UNCHANGED <<brokerVars, jwt, conn>>

\* The timer armed by confirmAuth expires and runs dispose.
AuthTimeout(a) ==
    /\ auth.calls[a].timer >= 0
    /\ AuthTimerDue(auth.calls[a].timer)
    /\ auth' = AuthDispose(auth, a)
    /\ UNCHANGED <<brokerVars, jwt, conn>>

\* Time passes; a due timer runs before time moves on.
AuthTick ==
    /\ \E a \in AuthIds : auth.calls[a].timer >= 0
    /\ \A a \in AuthIds : auth.calls[a].timer >= 0 => ~AuthTimerDue(auth.calls[a].timer)
    /\ auth' = [auth EXCEPT !.calls =
                   [a \in AuthIds |-> IF auth.calls[a].timer >= 0
                                      THEN [auth.calls[a] EXCEPT !.timer = @ + 1]
                                      ELSE auth.calls[a]]]
    /\ UNCHANGED <<brokerVars, jwt, conn>>

NextAuth ==
    \/ \E t \in ConfirmTokens : ConfirmAuth(t)
    \/ \E t \in ConfirmTokens, n \in UserNames : ConfirmUser(t, n)
    \/ \E c \in ConfirmIds : RegisterUserDone(c)
    \/ \E c \in ConfirmIds : GenerateJwtDone(c)
    \/ \E a \in AuthIds : AuthTimeout(a)
    \/ AuthTick

SpecAuth == InitAuth /\ [][NextAuth]_vars

\* C17: whenever confirmUser returned a jwt, the pending value of the
\* confirmAuth call it looked up is resolved with that jwt, also when that
\* call's timer fired while confirmUser was suspended.
C17_ConfirmedLoginResolved ==
    \A c \in ConfirmIds :
        auth.confirms[c].pc = "returned" =>
            auth.calls[auth.confirms[c].auth].deferred =
                [state |-> "resolved", value |-> auth.confirms[c].result]

\* C18: confirmUser for a confirm token without an entry in the registry
\* fails with 'Login timed out' at once: no user is registered, no token is
\* signed, no confirmAuth call is touched, and the failed call never
\* proceeds.
C18_ConfirmWithoutEntryFails ==
    /\ [][\A t \in ConfirmTokens, n \in UserNames :
             (ConfirmUser(t, n) /\ auth.map[t] = 0) =>
                 /\ auth'.users = auth.users
                 /\ auth'.signed = auth.signed
                 /\ auth'.calls = auth.calls
                 /\ auth'.map = auth.map
                 /\ \E c \in ConfirmIds :
                       /\ auth.confirms[c].pc = "unused"
                       /\ auth'.confirms[c].pc = "failed"
                       /\ auth'.confirms[c].result = "Login timed out"
      ]_vars
    /\ [][\A c \in ConfirmIds :
             auth.confirms[c].pc = "failed" => auth'.confirms[c] = auth.confirms[c]
      ]_vars

\* A confirmUser failed for a token whose entry had timed out, and nothing
\* was registered or signed.
C18_Witness ==
    \E c \in ConfirmIds, a \in AuthIds :
        /\ auth.confirms[c].pc = "failed"
        /\ auth.confirms[c].result = "Login timed out"
        /\ auth.calls[a].token = auth.confirms[c].token
        /\ auth.calls[a].deferred = [state |-> "rejected",
                                     value |-> "Auth request timed out"]
        /\ auth.users = {}
        /\ auth.signed = {}

\* C19: an armed timer belongs to a pending confirmAuth call and never
\* runs past 300 seconds; when it expires the token's registry entry is
\* evicted and the pending value rejected with 'Auth request timed out'; a
\* call that was confirmed has its timer cleared, and a settled call never
\* changes.
C19_AuthEntryAutoCancelled ==
    /\ [](\A a \in AuthIds :
             /\ auth.calls[a].timer >= 0 =>
                   /\ auth.calls[a].deferred.state = "pending"
                   /\ (auth.calls[a].timer - 1) * TickMs < 300000
             /\ auth.calls[a].deferred.state \in {"resolved", "rejected"} =>
                   /\ auth.calls[a].timer = -1
                   /\ auth.map[auth.calls[a].token] # a)
    /\ [][\A a \in AuthIds :
             /\ AuthTimeout(a) =>
                   /\ auth.calls[a].timer * TickMs >= 300000
                   /\ auth'.map[auth.calls[a].token] = 0
                   /\ auth'.calls[a].deferred =
                         [state |-> "rejected", value |-> "Auth request timed out"]
             /\ auth.calls[a].deferred.state \in {"resolved", "rejected"} =>
                   auth'.calls[a] = auth.calls[a]
      ]_vars

\* One login timed out and was rejected; another was confirmed and stays
\* resolved with its timer cleared.
C19_Witness ==
    \E a, b \in AuthIds :
        /\ auth.calls[a].deferred = [state |-> "rejected",
                                     value |-> "Auth request timed out"]
        /\ auth.map[auth.calls[a].token] = 0
        /\ auth.calls[b].deferred.state = "resolved"
        /\ auth.calls[b].timer = -1

\* C20: closeRoom with an id that has no room entry returns without
\* effect; in particular, when a host's channel closes after its room id
\* was already removed, rooms and the peer index stay as they were, nothing
\* is handed to any channel and no other channel is closed.
C20_CloseRoomUnknownIdNoOp ==
    /\ [](\A id \in RoomIds, d \in Dispatches :
             rooms[id] = 0 => CloseRoom(World, id, d) = Ok(World))
    /\ [][\A h \in PeerIds :
             (/\ Disconnect(h)
              /\ onClose[h].kind = "host"
              /\ rooms[onClose[h].room] = 0) =>
                 /\ rooms' = rooms
                 /\ roomObjs' = roomObjs
                 /\ peers' = peers
                 /\ \A q \in PeerIds : outbox'[q] = <<>>
                 /\ \A q \in PeerIds \ {h} : chan'[q] = chan[q]
      ]_vars

\* Two connections joined as host of room 1; the second closed and took
\* the room entry with it, then the first closed and found no entry.
C20_Witness ==
    \E h1, h2 \in PeerIds :
        /\ h1 < h2
        /\ onClose[h1] = [kind |-> "host", room |-> 1]
        /\ onClose[h2] = [kind |-> "host", room |-> 1]
        /\ chan[h1] = "closed"
        /\ chan[h2] = "closed"
        /\ rooms[1] = 0
        /\ peers[h1] # 0
        /\ peers[h2] = 0
        /\ dispatch = "any"
        /\ \A q \in PeerIds : outbox[q] = <<>>

\* C21: prepareRoom draws a room id and signs a host claim for it but
\* installs no room: getRoomById finds nothing under the id before and
\* after, and rooms, the rooms themselves and the peer index are unchanged;
\* a room id becomes active only in a step in which a connection is
\* accepted with a claim for that id that carries the host flag.
C21_PrepareRoomInstallsNothing ==
    [][/\ \A u \in Callers :
             PrepareRoom(u) =>
                 /\ GetRoomById(World, nextRoom) = 0
                 /\ rooms'[nextRoom] = 0
                 /\ rooms' = rooms
                 /\ roomObjs' = roomObjs
                 /\ peers' = peers
                 /\ claims' \ claims = {[room |-> nextRoom, user |-> u, host |-> TRUE]}
                 /\ \A q \in PeerIds : outbox'[q] = <<>>
       /\ \A id \in RoomIds :
             (rooms[id] = 0 /\ rooms'[id] # 0) =>
                 \E p \in PeerIds, c \in claims :
                    /\ Accept(p, c)
                    /\ c.host
                    /\ c.room = id
                    /\ roomObjs'[rooms'[id]].host = p
      ]_vars

\* Room 2 was prepared and its host token signed, and nothing else has
\* happened: no room is active.
C21_Witness ==
    /\ nextRoom = 3
    /\ ops = 1
    /\ \E u \in Callers : [room |-> 2, user |-> u, host |-> TRUE] \in claims
    /\ \A id \in RoomIds : rooms[id] = 0
    /\ roomObjs = <<>>
    /\ \A p \in PeerIds : chan[p] = "none" /\ peers[p] = 0

\* C22: when the channel of a guest g closes, g is taken out of its room's
\* guests and out of the peer index, so that after the close g is among no
\* room's peers.
C22_GuestCloseUnindexes ==
    [][\A g \in PeerIds :
          (Disconnect(g) /\ onClose[g].kind = "guest") =>
              /\ peers'[g] = 0
              /\ \A x \in DOMAIN roomObjs' :
                    \A i \in DOMAIN RoomPeers(roomObjs'[x]) :
                        RoomPeers(roomObjs'[x])[i] # g
      ]_vars

\* C23: when the channel of a peer closes, no relayed request that reached
\* that peer stays pending: each is rejected in that step and its entry
\* removed.
C23_CloseDrainsPending ==
    \A k \in KeyIds :
        (/\ awaiting[k].kind # "none"
         /\ awaiting[k].reached
         /\ chan[awaiting[k].target] = "closed") =>
            /\ k \notin DOMAIN requestMap
            /\ deferreds[k].state # "pending"

\* C24: a request relayed to a target whose channel is already closed is
\* rejected in the step that relays it and leaves no entry in the table.
C24_ClosedTargetRejected ==
    \A k \in KeyIds :
        (awaiting[k].kind # "none" /\ ~awaiting[k].reached) =>
            /\ k \notin DOMAIN requestMap
            /\ deferreds[k].state = "rejected"

\* C25: while a room id stays active it names the same room with the same
\* host, also across the acceptance of another connection that presents a
\* host claim for that id.
C25_OneHostForLife ==
    [][\A id \in RoomIds :
          (rooms[id] # 0 /\ rooms'[id] # 0) =>
              /\ rooms'[id] = rooms[id]
              /\ roomObjs'[rooms'[id]].host = roomObjs[rooms[id]].host
      ]_vars

\* C26: every broadcast envelope the relay hands out for a broadcast
\* received from peer p carries clientId = p, whatever clientId the inbound
\* envelope carried: the step is the same for every inbound clientId, and
\* every relayed client broadcast names the peer it was received from.
C26_BroadcastStampedWithSender ==
    [][/\ \A p \in PeerIds, c \in SenderClientIds :
             ReceiveBroadcast(p, c) =>
                 /\ \A q \in PeerIds : \A n \in DOMAIN outbox'[q] :
                        /\ outbox'[q][n].kind = "broadcast"
                        /\ outbox'[q][n].clientId = p
                 /\ \A c2 \in SenderClientIds : ReceiveBroadcast(p, c2)
       /\ \A q \in PeerIds : \A n \in DOMAIN outbox'[q] :
             (outbox'[q][n].kind = "broadcast"
                /\ outbox'[q][n].method = "editor/update") =>
                 /\ outbox'[q][n].clientId \in PeerIds
                 /\ \E c \in SenderClientIds :
                       ReceiveBroadcast(outbox'[q][n].clientId, c)
      ]_vars

\* The host's broadcast has just reached both guests of its room, stamped
\* with the host's id.
C26_Witness ==
    \E h \in PeerIds :
        /\ peers[h] # 0
        /\ roomObjs[peers[h]].host = h
        /\ Len(roomObjs[peers[h]].guests) = 2
        /\ outbox[h] = <<>>
        /\ \A q \in PeerIds \ {h} :
              /\ delivered[q] = 1
              /\ outbox[q] = <<BroadcastMessageCreate("editor/update", h, NoParams)>>

\* ------------------------------------------- arbitrary inbound envelopes
\* What a socket can deliver to receiveMessage: any object.  Undefined
\* stands for a field that is absent (or not a string); "0.0.9" for a
\* version string other than the broker's; "bogus" for a kind outside the
\* protocol.  A response may carry any id, a relay key included.
MaxInputs == 4
Undefined == "undefined"
Versions == {VERSION, "0.0.9", Undefined}
ReplyIds == {CId(i) : i \in ClientIds} \cup {Key(k) : k \in KeyIds} \cup {NoId}

\* Message.is and the is() of each message namespace
MessageIs(m) == m.version # Undefined /\ m.kind # Undefined
RequestMessageIs(m) == MessageIs(m) /\ m.kind = "request"
ResponseMessageIs(m) == MessageIs(m) /\ m.kind = "response"
ResponseErrorMessageIs(m) == MessageIs(m) /\ m.kind = "response-error"
NotificationMessageIs(m) == MessageIs(m) /\ m.kind = "notification"
BroadcastMessageIs(m) == MessageIs(m) /\ m.kind = "broadcast"

Inbound(kind, version, id, clientId, value) ==
    Envelope(kind, id,
             CASE kind = "request" -> "peer/init"
               [] kind = "notification" -> "editor/open"
               [] kind = "broadcast" -> "editor/update"
               [] OTHER -> "",
             clientId, NoParams,
             IF kind = "response" THEN value ELSE "",
             IF kind = "response-error" THEN value ELSE "",
             version)

InboundEnvelopes ==
    {Inbound("request", v, CId(i), 0, "") : v \in Versions, i \in ClientIds}
    \cup {Inbound("request", VERSION, NoId, 0, "")}
    \cup {Inbound("response", VERSION, id, 0, x) : id \in ReplyIds, x \in Values}
    \cup {Inbound("response-error", VERSION, id, 0, e) : id \in ReplyIds, e \in ErrorTexts}
    \cup {Inbound("notification", v, NoId, 0, "") : v \in Versions}
    \cup {Inbound("broadcast", v, NoId, 0, "") : v \in Versions}
    \cup {Inbound("bogus", VERSION, NoId, 0, ""), Inbound(Undefined, VERSION, NoId, 0, "")}

\* PeerImpl.receiveMessage for any inbound object.  A response without id
\* throws in pushResponse before the table is read; an object that passes
\* none of the is() tests falls through every branch.
ReceiveMessage(p, message) ==
    /\ chan[p] = "open"
    /\ ops < MaxInputs
    /\ RequestMessageIs(message) => nextKey \in KeyIds
    /\ ops' = ops + 1
    /\ CASE ResponseMessageIs(message) \/ ResponseErrorMessageIs(message) ->
              /\ Settle(PushResponse(Relay, p, message), KeyOf(message.id), World)
              /\ UNCHANGED <<awaiting, nextKey>>
         [] RequestMessageIs(message) ->
              IF peers[p] = 0
              THEN /\ Commit(SendMessage(World, p,
                         ResponseErrorMessageCreate(message.id,
                             "This peer doesn't belong to any room")))
                   /\ UNCHANGED <<requestMap, deferreds, awaiting, timers, nextKey,
                                  joinResults, claims>>
              ELSE /\ awaiting' = [awaiting EXCEPT ![nextKey] =
                          [NoAwait EXCEPT !.kind = "peer", !.peer = p,
                                          !.id = message.id, !.version = message.version,
                                          !.target = roomObjs[peers[p]].host,
                                          !.reached = (chan[roomObjs[peers[p]].host] = "open")]]
                   /\ Settle(SendRequestEntry(Relay, nextKey, message), nextKey,
                             SendMessage(World, roomObjs[peers[p]].host,
                                         TargetMessage(message, nextKey)))
                   /\ nextKey' = nextKey + 1
         [] NotificationMessageIs(message) ->
              /\ IF peers[p] = 0 THEN Commit(World)
                 ELSE Commit(SendNotification(World, roomObjs[peers[p]].host, message))
              /\ UNCHANGED <<requestMap, deferreds, awaiting, timers, nextKey, claims,
                             joinResults>>
         [] BroadcastMessageIs(message) ->
              /\ Commit(SendBroadcast(World, p, message).w)
              /\ UNCHANGED <<requestMap, deferreds, awaiting, timers, nextKey, claims,
                             joinResults>>
         [] OTHER ->
              /\ Commit(World)
              /\ UNCHANGED <<requestMap, deferreds, awaiting, timers, nextKey, claims,
                             joinResults>>
    /\ UNCHANGED <<nextRoom, dispatch, joinedRoom>>

InitWire ==
    /\ InitJoined
    /\ recording = FALSE

NextWire ==
    \/ \E p \in PeerIds, message \in InboundEnvelopes : ReceiveMessage(p, message)
    \/ \E key \in KeyIds : Timeout(key)
    \/ Tick

SpecWire == InitWire /\ [][NextWire]_vars

\* C27: a response or response-error that carries the relay key of a
\* pending request but arrives from a peer other than the one the request
\* was sent to settles nothing: the table and every Deferred stay as they
\* were and nothing is handed to any channel.
C27_OnlyTargetSettles ==
    [][\A p \in PeerIds, m \in InboundEnvelopes :
          (/\ ReceiveMessage(p, m)
           /\ m.kind \in {"response", "response-error"}
           /\ KeyOf(m.id) \in DOMAIN requestMap
           /\ p # awaiting[KeyOf(m.id)].target) =>
              /\ requestMap' = requestMap
              /\ deferreds' = deferreds
              /\ timers' = timers
              /\ \A q \in PeerIds : outbox'[q] = <<>>
      ]_vars

\* C28: an inbound envelope that fails the schema (a kind outside the
\* protocol or none, no version, or a request or response without id) is
\* answered with exactly one Error envelope on the sender's channel, which
\* is then closed, and nothing is handed to any other channel.
C28_MalformedAnsweredAndClosed ==
    [][\A p \in PeerIds, m \in InboundEnvelopes :
          (/\ ReceiveMessage(p, m)
           /\ \/ m.kind \notin {"request", "response", "response-error",
                                "notification", "broadcast"}
              \/ m.version = Undefined
              \/ m.kind \in {"request", "response", "response-error"} /\ m.id = NoId) =>
              /\ Len(outbox'[p]) = 1
              /\ outbox'[p][1].kind = "error"
              /\ delivered'[p] = 1
              /\ chan'[p] = "closed"
              /\ \A q \in PeerIds \ {p} : outbox'[q] = <<>>
      ]_vars

\* C29: an inbound envelope whose version is not the broker's is relayed to
\* nobody and starts no relayed request, and every envelope a client
\* receives carries the broker's version.
C29_OtherVersionRejected ==
    /\ [](\A q \in PeerIds : \A n \in 1..delivered[q] :
             outbox[q][n].version = VERSION)
    /\ [][\A p \in PeerIds, m \in InboundEnvelopes :
             (ReceiveMessage(p, m) /\ m.version # VERSION) =>
                 /\ \A q \in PeerIds \ {p} : outbox'[q] = <<>>
                 /\ requestMap' = requestMap
      ]_vars

\* C30: every relayed request is stored and forwarded under a relay key
\* that no request used before, whatever id its client chose, and leaves
\* the other pending requests as they are; an answer under a pending key
\* settles that request alone, with the value it carries, and only the
\* origin of that request is handed a reply, under the id of its own
\* request.  So two pending requests with the same client-chosen id are
\* told apart.
C30_SameClientIdSettledApart ==
    [][\A p \in PeerIds, m \in InboundEnvelopes :
              /\ (/\ RequestMessageIs(m)
                  /\ peers[p] # 0
                  /\ ReceiveMessage(p, m)) =>
                    \E k \in KeyIds \ DOMAIN requestMap :
                       /\ deferreds[k].state = "unused"
                       /\ DOMAIN requestMap' = DOMAIN requestMap \cup {k}
                       /\ requestMap'[k].id = m.id
                       /\ deferreds'[k].state = "pending"
                       /\ \A j \in KeyIds \ {k} :
                             /\ deferreds'[j] = deferreds[j]
                             /\ j \in DOMAIN requestMap => requestMap'[j] = requestMap[j]
                       /\ \A q \in PeerIds :
                             outbox'[q] = IF q = roomObjs[peers[p]].host
                                          THEN <<[m EXCEPT !.id = Key(k)]>> ELSE <<>>
              /\ (/\ m.kind \in {"response", "response-error"}
                  /\ KeyOf(m.id) \in DOMAIN requestMap
                  /\ ReceiveMessage(p, m)) =>
                    LET k == KeyOf(m.id)
                        reply == [version |-> IF m.kind = "response"
                                              THEN awaiting[k].version ELSE VERSION,
                                  kind |-> m.kind, id |-> requestMap[k].id,
                                  method |-> "", clientId |-> 0, params |-> NoParams,
                                  response |-> m.response, message |-> m.message]
                    IN  /\ DOMAIN requestMap' = DOMAIN requestMap \ {k}
                        /\ deferreds'[k] =
                              [state |-> IF m.kind = "response" THEN "resolved"
                                         ELSE "rejected",
                               value |-> IF m.kind = "response" THEN m.response
                                         ELSE m.message]
                        /\ \A j \in KeyIds \ {k} :
                              /\ deferreds'[j] = deferreds[j]
                              /\ j \in DOMAIN requestMap =>
                                    /\ requestMap'[j] = requestMap[j]
                                    /\ j \in DOMAIN timers'
                        /\ awaiting[k].id = requestMap[k].id
                        /\ \A q \in PeerIds :
                              outbox'[q] = IF q = awaiting[k].peer THEN <<reply>>
                                           ELSE <<>>
      ]_vars

\* Two guests each sent a request under client id 1; both were pending
\* when the host answered the first with true, and that guest alone has
\* just been handed the reply, while the second request is still pending.
C30_Witness ==
    \E k1, k2 \in KeyIds :
        /\ k1 # k2
        /\ awaiting[k1].id = CId(1)
        /\ awaiting[k2].id = CId(1)
        /\ awaiting[k1].peer # awaiting[k2].peer
        /\ deferreds[k1] = [state |-> "resolved", value |-> "true"]
        /\ k2 \in DOMAIN requestMap
        /\ deferreds[k2].state = "pending"
        /\ \A q \in PeerIds :
              outbox[q] = IF q = awaiting[k1].peer
                          THEN <<Envelope("response", CId(1), "", 0, NoParams, "true",
                                          "", VERSION)>>
                          ELSE <<>>

\* C32: the public projection of a peer is its peer id, its user's name and
\* its user's email and nothing else: it is the same whatever the user's
\* server-side id is, and every room/joined, room/left and peer/info
\* envelope carries exactly that projection of the peer it names, in which
\* no field holds a user id.
C32_ProjectionHidesUserId ==
    /\ \A p \in PeerIds, i1, i2 \in {u.id : u \in Users} \cup {""} :
          ToProtocol([World EXCEPT !.user[p].id = i1], p)
              = ToProtocol([World EXCEPT !.user[p].id = i2], p)
    /\ \A q \in PeerIds : \A n \in DOMAIN outbox[q] :
          outbox[q][n].method \in {"room/joined", "room/left", "peer/info"} =>
              LET x == outbox[q][n].params
              IN  /\ x.peer \in PeerIds
                  /\ x = [peer |-> x.peer, uid |-> "", name |-> user[x.peer].name,
                          email |-> user[x.peer].email]
                  /\ \A u \in Users : u.id \notin {x.uid, x.name, x.email}

\* The guest whose user has server-side id u2 has just joined: the host was
\* handed room/joined and the guest peer/info, both with name and email
\* only.
C32_Witness ==
    \E g, h \in PeerIds :
        /\ user[g].id = "u2"
        /\ onClose[g].kind = "guest"
        /\ onClose[h].kind = "host"
        /\ Len(outbox[h]) = 1
        /\ outbox[h][1].method = "room/joined"
        /\ outbox[h][1].params = [peer |-> g, uid |-> "", name |-> "Bob", email |-> ""]
        /\ Len(outbox[g]) = 1
        /\ outbox[g][1].method = "peer/info"
        /\ outbox[g][1].params = outbox[h][1].params

\* C33: a request or a notification received from a guest is handed
\* exactly once to the channel of the host of the room the guest is indexed
\* under (the request under a relay key) and to no other channel; a
\* notification leaves the relay table, the timers and the Deferreds as
\* they were.
C33_GuestToHostOnly ==
    [][\A g \in PeerIds :
          (peers[g] # 0 /\ roomObjs[peers[g]].host # g) =>
              LET h == roomObjs[peers[g]].host
              IN  /\ (\E i \in ClientIds : ReceiveRequest(g, i)) =>
                        /\ \A q \in PeerIds \ {h} : outbox'[q] = <<>>
                        /\ Len(outbox'[h]) = 1
                        /\ outbox'[h][1].kind = "request"
                        /\ outbox'[h][1].method = "peer/init"
                        /\ KeyOf(outbox'[h][1].id) \in DOMAIN requestMap' \ DOMAIN requestMap
                        /\ delivered'[h] = IF chan[h] = "open" THEN 1 ELSE 0
                  /\ ReceiveNotification(g) =>
                        /\ \A q \in PeerIds \ {h} : outbox'[q] = <<>>
                        /\ outbox'[h] = <<NotificationMessageCreate("editor/open", NoParams)>>
                        /\ delivered'[h] = IF chan[h] = "open" THEN 1 ELSE 0
                        /\ requestMap' = requestMap
                        /\ timers' = timers
                        /\ deferreds' = deferreds
      ]_vars

\* In a room of three a guest's request has just reached the host alone,
\* under its relay key.
C33_Witness ==
    \E h \in PeerIds, k \in DOMAIN requestMap :
        /\ onClose[h].kind = "host"
        /\ peers[h] # 0
        /\ Len(roomObjs[peers[h]].guests) = 2
        /\ awaiting[k].kind = "peer"
        /\ awaiting[k].peer # h
        /\ peers[awaiting[k].peer] = peers[h]
        /\ outbox[h] = <<RequestMessageCreate("peer/init", Key(k), NoParams)>>
        /\ delivered[h] = 1
        /\ \A q \in PeerIds \ {h} : outbox[q] = <<>> /\ chan[q] = "open"

\* C34: rooms, the rooms' hosts and guests lists and the peer index change
\* only in a step that accepts a connection (join) or closes a channel
\* (closeRoom through the host's onClose); a received request, response,
\* notification or broadcast, a join request relayed to a host, a timer's
\* expiry and the passing of time leave all three as they were.
C34_OnlyJoinAndCloseRoomMutate ==
    [][/\ <<rooms, roomObjs, peers>>' # <<rooms, roomObjs, peers>> =>
             \E p \in PeerIds : Disconnect(p) \/ \E c \in claims : Accept(p, c)
       /\ \/ <<rooms, roomObjs, peers>>' = <<rooms, roomObjs, peers>>
          \/ ~ \/ \E p \in PeerIds, i \in ClientIds : ReceiveRequest(p, i)
               \/ \E p \in PeerIds, k \in 0..MaxOps, v \in Values :
                     ReceiveResponse(p, IF k = 0 THEN CId(1) ELSE Key(k), "response", v)
               \/ \E p \in PeerIds, k \in 0..MaxOps, e \in ErrorTexts :
                     ReceiveResponse(p, IF k = 0 THEN CId(1) ELSE Key(k),
                                     "response-error", e)
               \/ \E p \in PeerIds : ReceiveNotification(p)
               \/ \E p \in PeerIds, c \in SenderClientIds : ReceiveBroadcast(p, c)
               \/ \E roomId \in RoomIds, u \in Callers : RequestJoin(roomId, u)
               \/ \E key \in KeyIds : Timeout(key)
               \/ Tick
      ]_vars

\* A guest closed its channel and is still in the index and in its room;
\* a broadcast of another member has just been handed to its closed
\* channel, and the room is as it was.
C34_Witness ==
    \E g \in PeerIds :
        /\ chan[g] = "closed"
        /\ onClose[g].kind = "guest"
        /\ peers[g] # 0
        /\ \E i \in DOMAIN roomObjs[peers[g]].guests : roomObjs[peers[g]].guests[i] = g
        /\ Len(outbox[g]) = 1
        /\ outbox[g][1].method = "editor/update"
        /\ delivered[g] = 0
        /\ \E id \in RoomIds : rooms[id] = peers[g]

\* C35: a request or notification received from a peer is never handed to
\* that peer's own channel, also when the peer is the host of its room.
C35_NeverBackToSender ==
    [][\A p \in PeerIds :
          ((\E i \in ClientIds : ReceiveRequest(p, i)) \/ ReceiveNotification(p)) =>
              \A n \in DOMAIN outbox'[p] :
                  outbox'[p][n].kind \notin {"request", "notification"}
      ]_vars

\* C36: no peer is a member of two rooms, and every envelope handed out in
\* a step that receives a broadcast, request, notification or response
\* from a peer o goes to o itself or to a member of the room o is a member
\* of, never to a member of another room, also when two rooms were
\* installed under one room id.
C36_RoomsIsolated ==
    /\ [](\A x, y \in DOMAIN roomObjs :
             x # y =>
                 \A i \in DOMAIN RoomPeers(roomObjs[x]), j \in DOMAIN RoomPeers(roomObjs[y]) :
                     RoomPeers(roomObjs[x])[i] # RoomPeers(roomObjs[y])[j])
    /\ [][\A o \in PeerIds :
             (\/ \E c \in SenderClientIds : ReceiveBroadcast(o, c)
              \/ \E i \in ClientIds : ReceiveRequest(o, i)
              \/ ReceiveNotification(o)
              \/ \E k \in 0..MaxOps, v \in Values :
                    ReceiveResponse(o, IF k = 0 THEN CId(1) ELSE Key(k), "response", v)
              \/ \E k \in 0..MaxOps, e \in ErrorTexts :
                    ReceiveResponse(o, IF k = 0 THEN CId(1) ELSE Key(k),
                                    "response-error", e)) =>
                 \A q \in PeerIds \ {o} :
                     outbox'[q] # <<>> =>
                         \E x \in DOMAIN roomObjs :
                             {o, q} \subseteq {RoomPeers(roomObjs[x])[i] :
                                                  i \in DOMAIN RoomPeers(roomObjs[x])}
      ]_vars

\* Two rooms are installed, the second under the id of the first; the
\* host of the first has just broadcast: its guest was handed the
\* envelope, the host of the other room nothing.
C36_Witness ==
    \E h1, g, h2 \in PeerIds :
        /\ Len(roomObjs) = 2
        /\ roomObjs[1] = [id |-> 1, host |-> h1, guests |-> <<g>>]
        /\ roomObjs[2] = [id |-> 1, host |-> h2, guests |-> <<>>]
        /\ rooms[1] = 2
        /\ \A q \in PeerIds : chan[q] = "open"
        /\ outbox[g] = <<BroadcastMessageCreate("editor/update", h1, NoParams)>>
        /\ delivered[g] = 1
        /\ outbox[h1] = <<>>
        /\ outbox[h2] = <<>>

\* C37: the expiry of one confirmAuth call's timer evicts only that call's
\* registry entry: a pending call that is the latest registered under its
\* confirm token stays in the registry while its own 300 seconds have not
\* passed and it is not confirmed.
C37_ExpiryEvictsOwnEntryOnly ==
    \A a \in AuthIds :
        (/\ auth.calls[a].deferred.state = "pending"
         /\ ~AuthTimerDue(auth.calls[a].timer)
         /\ \A b \in AuthIds : b > a => auth.calls[b].token # auth.calls[a].token) =>
            auth.map[auth.calls[a].token] = a

\* C38: of the confirmUser calls that looked up one pending confirmAuth
\* entry, at most one gets past the lookup to register a user and return a
\* jwt, and the returned jwt is the value the confirmAuth call is resolved
\* with.
C38_OneUserPerToken ==
    /\ \A c, d \in ConfirmIds :
          (/\ c # d
           /\ auth.confirms[c].auth # 0
           /\ auth.confirms[c].auth = auth.confirms[d].auth) =>
              ~ (/\ auth.confirms[c].pc \in {"sign", "returned"}
                 /\ auth.confirms[d].pc \in {"sign", "returned"})
    /\ \A c \in ConfirmIds :
          auth.confirms[c].pc = "returned" =>
              auth.calls[auth.confirms[c].auth].deferred =
                  [state |-> "resolved", value |-> auth.confirms[c].result]

\* -------------------------------------------------- client Connection
\* What the broker can deliver to a client: answers to its requests,
\* requests relayed under a relay key, notifications, anything else.
ConnInbound ==
    {ResponseMessageCreate(CId(i), v) : i \in ConnIds, v \in Values}
    \cup {ResponseErrorMessageCreate(CId(i), e) : i \in ConnIds, e \in ErrorTexts}
    \cup {RequestMessageCreate(m, Key(k), NoParams) : m \in ConnMethods, k \in KeyIds}
    \cup {NotificationMessageCreate("editor/open", NoParams)}
    \cup {Inbound("bogus", VERSION, NoId, 0, "")}

otherVars == <<chan, user, onClose, roomObjs, rooms, peers, outbox, delivered,
               requestMap, deferreds, awaiting, timers, nextKey, claims, nextRoom,
               joinResults, ops, recording, wire, joinedRoom, dispatch, jwt, auth>>

InitConn ==
    /\ InitBroker
    /\ jwt = NoRoundTrip
    /\ auth = NoAuths
    /\ conn = NoConn

\* Connection.onRequest
ConnOnRequest(method) ==
    /\ method \notin conn.messageHandlers
    /\ conn' = [conn EXCEPT !.messageHandlers = @ \cup {method}, !.written = <<>>]
    /\ UNCHANGED otherVars

\* Connection.sendRequest
ConnSendRequest(method) ==
    /\ conn.requestId <= MaxSends
    /\ LET id == conn.requestId
       IN  conn' = [conn EXCEPT
                      !.requestId = @ + 1,
                      !.requestMap = @ \cup {id},
                      !.deferreds[id] = Pending,
                      !.timers[id] = 0,
                      !.written = <<RequestMessageCreate(method, CId(id), NoParams)>>]
    /\ UNCHANGED otherVars

\* Connection.handleMessage; b is what the handler of a request does
ConnHandleMessage(message, b) ==
    /\ conn.received < MaxReceives
    /\ LET s == [conn EXCEPT !.written = <<>>]
           t == IF ~MessageIs(message) THEN s
                ELSE IF ResponseMessageIs(message) \/ ResponseErrorMessageIs(message)
                THEN ConnPushResponse(s, message)
                ELSE IF RequestMessageIs(message)
                THEN ConnHandleRequest(s, message, b)
                ELSE s
       IN  conn' = [t EXCEPT !.received = @ + 1]
    /\ UNCHANGED otherVars

\* The promise a handler returned settles: the then-callbacks of
\* handleMessage write the reply.
ConnHandlerSettles(n, fulfilled) ==
    /\ \E r \in conn.running : r.n = n
    /\ LET r == CHOOSE x \in conn.running : x.n = n
       IN  conn' = [conn EXCEPT
                      !.running = @ \ {r},
                      !.written = IF fulfilled
                                  THEN <<ResponseMessageCreate(r.id, "true")>>
                                  ELSE <<ResponseErrorMessageCreate(r.id, "denied")>>]
    /\ UNCHANGED otherVars

\* The timer armed by Connection.sendRequest expires and runs dispose.
ConnTimeout(id) ==
    /\ conn.timers[id] >= 0
    /\ ConnTimerDue(conn.timers[id])
    /\ conn' = [ConnDispose(conn, id) EXCEPT !.written = <<>>]
    /\ UNCHANGED otherVars

\* Time passes; a due timer runs before time moves on.
ConnTick ==
    /\ \E i \in ConnIds : conn.timers[i] >= 0
    /\ \A i \in ConnIds : conn.timers[i] >= 0 => ~ConnTimerDue(conn.timers[i])
    /\ conn' = [conn EXCEPT !.written = <<>>,
                            !.timers = [i \in ConnIds |->
                                           IF conn.timers[i] >= 0 THEN conn.timers[i] + 1
                                           ELSE -1]]
    /\ UNCHANGED otherVars

NextConn ==
    \/ \E method \in ConnMethods : ConnOnRequest(method)
    \/ \E method \in ConnMethods : ConnSendRequest(method)
    \/ \E message \in ConnInbound, b \in HandlerOutcomes : ConnHandleMessage(message, b)
    \/ \E n \in 1..MaxReceives, fulfilled \in BOOLEAN : ConnHandlerSettles(n, fulfilled)
    \/ \E id \in ConnIds : ConnTimeout(id)
    \/ ConnTick

SpecConn == InitConn /\ [][NextConn]_vars

\* C31: a request that was settled by a response has no timer armed and no
\* entry left, in the broker's relay table and in the client Connection's
\* request map alike, so no timer fires later for an answered request.
C31_AnsweredRequestCleared ==
    /\ \A k \in KeyIds :
          (deferreds[k].state \in {"resolved", "rejected"}
             /\ deferreds[k].value # "Request timed out") =>
              k \notin DOMAIN requestMap /\ k \notin DOMAIN timers
    /\ \A i \in ConnIds :
          (conn.deferreds[i].state \in {"resolved", "rejected"}
             /\ conn.deferreds[i].value # "Request timed out") =>
              i \notin conn.requestMap /\ conn.timers[i] = -1

\* C39: for every request a client Connection receives it writes exactly
\* one reply under the request's id: a Response when the handler returns
\* or its promise is fulfilled, a ResponseError when it throws or its
\* promise is rejected, and a ResponseError when no handler is registered
\* for the method.
C39_EveryRequestAnswered ==
    [][/\ \A message \in ConnInbound, b \in HandlerOutcomes :
             (message.kind = "request" /\ ConnHandleMessage(message, b)) =>
                 IF message.method \in conn.messageHandlers /\ b = "pending"
                 THEN /\ conn'.written = <<>>
                      /\ \E r \in conn'.running \ conn.running : r.id = message.id
                 ELSE /\ Len(conn'.written) = 1
                      /\ conn'.written[1].id = message.id
                      /\ conn'.written[1].kind =
                            IF message.method \in conn.messageHandlers /\ b = "returns"
                            THEN "response" ELSE "response-error"
       /\ \A r \in conn.running, fulfilled \in BOOLEAN :
             ConnHandlerSettles(r.n, fulfilled) =>
                 /\ Len(conn'.written) = 1
                 /\ conn'.written[1].id = r.id
                 /\ conn'.written[1].kind =
                       IF fulfilled THEN "response" ELSE "response-error"
                 /\ r \notin conn'.running
      ]_vars

====
